---- MODULE Spec2Model ----
(***************************************************************************)
(* Prediction-market settlement engine: the encrypted circuits             *)
(* (encrypted-ixs/src/lib.rs, advance.rs) and the ledger coordinator that  *)
(* drives them (programs/prediction_markets/src/lib.rs, lib_full.rs).      *)
(*                                                                         *)
(* The module holds several specifications over one set of variables:      *)
(*   SpecValidator  - the circuit submit_private_vote on one vote;         *)
(*   SpecAggregate  - the circuit aggregate_market_votes, call after call, *)
(*                    and the callback that publishes its buffer;          *)
(*   Spec           - the coordinator program, in either of its two builds *)
(*                    (lib.rs with the computation callbacks, lib_full.rs  *)
(*                    with public votes);                                  *)
(*   SpecVoting     - the voting phase of build lib.rs, with the encrypted *)
(*                    payload of each submission;                          *)
(*   SpecResolution - one position from its vote to its payout, with the   *)
(*                    oracle proposals that can resolve the market;        *)
(*   SpecPayout     - the circuit calculate_payout on one PayoutData;      *)
(*   SpecOdds       - the circuit calculate_market_odds on one state;      *)
(*   SpecProducts   - the products of calculate_payout at full u64 width;  *)
(*   SpecFoldedOdds - calculate_market_odds on states built by the fold;   *)
(*   SpecDetect     - the circuit detect_manipulation on one batch;        *)
(*   SpecOracle     - build lib.rs with the oracle proposal, its consensus *)
(*                    and its manipulation analysis;                       *)
(*   SpecValidators - OracleResolution::resolve_with_validators            *)
(*                    (oracle_system.rs) on one set of validator votes;    *)
(*   SpecSqrt       - sqrt_approx on one argument, iteration by iteration. *)
(* A specification leaves the variables of the others at their idle value. *)
(* TLC's integers are narrower than u64: the input domains keep every sum  *)
(* and product inside that range, and the one narrowing cast the circuits  *)
(* make (as u8) is modelled by % 256.                                      *)
(***************************************************************************)
EXTENDS Integers, Sequences, FiniteSets, TLC

VARIABLES
    \* ---- circuit submit_private_vote
    vote,           \* the decrypted VoteData argument
    is_valid,       \* the byte the circuit returns
    vpc,            \* "idle" | "ready" | "done"
    \* ---- circuit aggregate_market_votes
    votes,          \* the batch argument, [VoteData; capacity]
    vote_count,     \* the vote_count argument
    current_state,  \* the Enc<Mxe, MarketVotingState> argument the caller holds
    state,          \* the circuit's local `state`
    i,              \* the loop index
    result,         \* the revealed [u8; 32]
    apc,            \* "idle" | "loop" | "done" (the buffer is returned)
    calls,          \* completed circuit calls
    folded,         \* what folding every vote of every call so far would give
    event,          \* the VotesAggregatedEvent the callback emitted for the call
    \* ---- coordinator
    program,        \* "arcium" (lib.rs) | "full" (lib_full.rs)
    now,            \* Clock::get()?.unix_timestamp
    market,         \* the PredictionMarket account
    position,       \* user -> UserPosition account, or NoPosition
    profile,        \* user -> UserProfile account
    vote_comps,     \* users whose submit_private_vote computation is in flight
    agg_comps,      \* number of aggregate_market_votes computations in flight
    payout_comps,   \* user -> sequence of calculate_payout computations in flight
    credited,       \* user -> number of payout results honoured so far
    ix_result,      \* outcome of the last instruction: [op, user, err]
    \* ---- coordinator, oracle resolution (lib.rs)
    proposal,       \* proposer -> OracleProposal account, or NoProposal
    consensus_comps, \* proposer -> number of oracle-consensus computations in flight
    manipulation_comps, \* proposer -> number of manipulation analyses in flight
    oracle_dispute, \* proposer -> the disputers whose OracleDispute account exists
    \* ---- circuit calculate_payout
    payout_data,    \* the decrypted PayoutData argument
    final_payout,   \* the u64 the circuit returns
    ppc,            \* "idle" | "ready" | "done"
    \* ---- circuit calculate_market_odds
    odds_state,     \* the decrypted MarketVotingState argument
    odds_result,    \* the revealed [u8; 8]
    opc,            \* "idle" | "ready" | "done"
    \* ---- the u64 products of calculate_payout, at full width
    mul_args,       \* the six u64 factors, each as 8 little-endian bytes
    mul_out,        \* the three products the circuit holds: [value, failed]
    mpc,            \* "idle" | "ready" | "done"
    \* ---- circuit detect_manipulation
    det_votes,      \* the batch argument, [VoteData; 50]
    det_count,      \* the vote_count argument
    det_i,          \* the index of the outer loop
    same_timestamp_count,
    same_probability_count,
    same_conviction_count,
    manipulation_score,     \* the u8 the circuit returns
    dpc             \* "idle" | "loop" | "done" | "failed" (an addition overflowed)

VARIABLES
    rv_validators,        \* resolve_with_validators: the validators, each with its weight
    rv_votes,             \* its votes, a sequence of (vote, weight)
    rv_min_participation, \* its min_participation, a ratio num / den
    rv_result,            \* what it returned
    rpc                   \* "idle" | "ready" | "done"

VARIABLES
    sq_x,           \* sqrt_approx: the argument x
    sq_result,      \* the local `result`, then the returned value
    sq_i,           \* iterations of the loop done so far
    sqpc            \* "idle" | "start" | "loop" | "done" | "failed" (division by zero)

validatorVars == <<vote, is_valid, vpc>>
aggregateVars == <<votes, vote_count, current_state, state, i, result, apc, calls, folded,
                   event>>
coordVars == <<program, now, market, position, profile, vote_comps, agg_comps,
               payout_comps, credited, ix_result>>
oracleVars == <<proposal, consensus_comps, manipulation_comps, oracle_dispute>>
payoutVars == <<payout_data, final_payout, ppc>>
oddsVars == <<odds_state, odds_result, opc>>
productVars == <<mul_args, mul_out, mpc>>
detectVars == <<det_votes, det_count, det_i, same_timestamp_count, same_probability_count,
                same_conviction_count, manipulation_score, dpc>>
consensusVars == <<rv_validators, rv_votes, rv_min_participation, rv_result, rpc>>
sqrtVars == <<sq_x, sq_result, sq_i, sqpc>>
utilVars == <<consensusVars, sqrtVars>>
pureVars == <<payoutVars, oddsVars, productVars, detectVars, utilVars>>
vars == <<validatorVars, aggregateVars, coordVars, oracleVars, pureVars>>

(***************************************************************************)
(* Data model of the circuits.  voter and market_id are carried by the     *)
(* structs but read by no circuit; they are left out of the records.       *)
(***************************************************************************)
NoVote == [vote_choice |-> 0, stake_amount |-> 0, predicted_probability |-> 0,
           conviction_score |-> 0, timestamp |-> 0, nonce |-> 0]

MkVote(c, s, p, k) == [vote_choice |-> c, stake_amount |-> s, predicted_probability |-> p,
                       conviction_score |-> k, timestamp |-> 1, nonce |-> 1]

ZeroState == [total_yes_votes |-> 0, total_no_votes |-> 0, total_skip_votes |-> 0,
              total_yes_stake |-> 0, total_no_stake |-> 0, total_participants |-> 0,
              weighted_probability_sum |-> 0, conviction_weighted_yes |-> 0,
              conviction_weighted_no |-> 0, last_updated |-> 0]

(***************************************************************************)
(* Circuit submit_private_vote: every check may only clear is_valid.       *)
(***************************************************************************)
\* Faulty variant: the upper bound on conviction_score is not checked.
submit_private_vote_noconv(v) ==
    LET c1 == IF v.vote_choice > 2 THEN 0 ELSE 1
        c2 == IF v.stake_amount = 0 THEN 0 ELSE c1
        c3 == IF v.predicted_probability > 100 THEN 0 ELSE c2
        c4 == IF v.timestamp = 0 THEN 0 ELSE c3
        c5 == IF v.conviction_score = 0 THEN 0 ELSE c4
        c6 == IF v.nonce = 0 THEN 0 ELSE c5
    IN  c6

\* submit_private_vote (lib.rs 297-338, advance.rs 57-98)
submit_private_vote(v) ==
    LET c1 == IF v.vote_choice > 2 THEN 0 ELSE 1
        c2 == IF v.stake_amount = 0 THEN 0 ELSE c1
        c3 == IF v.predicted_probability > 100 THEN 0 ELSE c2
        c4 == IF v.timestamp = 0 THEN 0 ELSE c3
        c5 == IF v.conviction_score = 0 \/ v.conviction_score > 1000 THEN 0 ELSE c4
        c6 == IF v.nonce = 0 THEN 0 ELSE c5
    IN  c6

\* Inputs of the validator: each field at, inside and beyond its bound, up to
\* the largest value its width holds (u8 255, u16 65535).
ChoiceDom == {0, 1, 2, 3, 255}
StakeDom == {0, 1, 1000}
ProbDom == {0, 100, 101, 255}
ConvDom == {0, 1, 1000, 1001, 65535}
StampDom == {0, 1}
NonceDom == {0, 1}

ValidatorInputs ==
    [vote_choice : ChoiceDom, stake_amount : StakeDom, predicted_probability : ProbDom,
     conviction_score : ConvDom, timestamp : StampDom, nonce : NonceDom]

ValidatorIdle == vote = NoVote /\ is_valid = 1 /\ vpc = "idle"

(***************************************************************************)
(* Circuit aggregate_market_votes.                                         *)
(***************************************************************************)
BatchCapacity == 2      \* stands for the 100 slots of [VoteData; 100]
MaxCalls == 2           \* circuit calls explored in one behaviour

\* The batch entries explored: a Yes, a No and a Skip vote with positive stake,
\* a vote with an out-of-range choice, and a Yes vote with no stake.  The No
\* vote carries a predicted_probability above 100: the field is a u8 and the
\* loop does not look at its range.
BatchVotes == { MkVote(1, 3, 80, 500), MkVote(0, 2, 201, 1000), MkVote(2, 5, 60, 7),
                MkVote(3, 4, 50, 10), MkVote(1, 0, 80, 500) }

Batches == [1..BatchCapacity -> BatchVotes]
VoteCounts == 0..(BatchCapacity + 1)

\* Faulty variant: weighted_probability_sum is overwritten, not accumulated.
FoldVote_overwrite(s, v) ==
    IF v.vote_choice <= 2 /\ v.stake_amount > 0
    THEN LET s1 == IF v.vote_choice = 1
                   THEN [s EXCEPT !.total_yes_votes = @ + 1,
                                  !.total_yes_stake = @ + v.stake_amount,
                                  !.conviction_weighted_yes = @ + v.conviction_score * v.stake_amount]
                   ELSE IF v.vote_choice = 0
                   THEN [s EXCEPT !.total_no_votes = @ + 1,
                                  !.total_no_stake = @ + v.stake_amount,
                                  !.conviction_weighted_no = @ + v.conviction_score * v.stake_amount]
                   ELSE IF v.vote_choice = 2
                   THEN [s EXCEPT !.total_skip_votes = @ + 1]
                   ELSE s
             s2 == IF v.vote_choice # 2
                   THEN [s1 EXCEPT !.weighted_probability_sum = v.stake_amount * v.predicted_probability]
                   ELSE s1
         IN  [s2 EXCEPT !.total_participants = @ + 1]
    ELSE s

\* Faulty variant: a Skip vote also adds to weighted_probability_sum.
FoldVote_skipstake(s, v) ==
    IF v.vote_choice <= 2 /\ v.stake_amount > 0
    THEN LET s1 == IF v.vote_choice = 1
                   THEN [s EXCEPT !.total_yes_votes = @ + 1,
                                  !.total_yes_stake = @ + v.stake_amount,
                                  !.conviction_weighted_yes = @ + v.conviction_score * v.stake_amount]
                   ELSE IF v.vote_choice = 0
                   THEN [s EXCEPT !.total_no_votes = @ + 1,
                                  !.total_no_stake = @ + v.stake_amount,
                                  !.conviction_weighted_no = @ + v.conviction_score * v.stake_amount]
                   ELSE IF v.vote_choice = 2
                   THEN [s EXCEPT !.total_skip_votes = @ + 1]
                   ELSE s
             s2 == [s1 EXCEPT !.weighted_probability_sum = @ + v.stake_amount * v.predicted_probability]
         IN  [s2 EXCEPT !.total_participants = @ + 1]
    ELSE s

\* Faulty variant: a Skip vote is not counted in total_skip_votes.
FoldVote_nocount(s, v) ==
    IF v.vote_choice <= 2 /\ v.stake_amount > 0
    THEN LET s1 == IF v.vote_choice = 1
                   THEN [s EXCEPT !.total_yes_votes = @ + 1,
                                  !.total_yes_stake = @ + v.stake_amount,
                                  !.conviction_weighted_yes = @ + v.conviction_score * v.stake_amount]
                   ELSE IF v.vote_choice = 0
                   THEN [s EXCEPT !.total_no_votes = @ + 1,
                                  !.total_no_stake = @ + v.stake_amount,
                                  !.conviction_weighted_no = @ + v.conviction_score * v.stake_amount]
                   ELSE s
             s2 == IF v.vote_choice # 2
                   THEN [s1 EXCEPT !.weighted_probability_sum = @ + v.stake_amount * v.predicted_probability]
                   ELSE s1
         IN  [s2 EXCEPT !.total_participants = @ + 1]
    ELSE s

\* The loop body for one accepted-or-not vote (lib.rs 357-378).
FoldVote(s, v) ==
    IF v.vote_choice <= 2 /\ v.stake_amount > 0
    THEN LET s1 == IF v.vote_choice = 1
                   THEN [s EXCEPT !.total_yes_votes = @ + 1,
                                  !.total_yes_stake = @ + v.stake_amount,
                                  !.conviction_weighted_yes = @ + v.conviction_score * v.stake_amount]
                   ELSE IF v.vote_choice = 0
                   THEN [s EXCEPT !.total_no_votes = @ + 1,
                                  !.total_no_stake = @ + v.stake_amount,
                                  !.conviction_weighted_no = @ + v.conviction_score * v.stake_amount]
                   ELSE IF v.vote_choice = 2
                   THEN [s EXCEPT !.total_skip_votes = @ + 1]
                   ELSE s
             s2 == IF v.vote_choice # 2
                   THEN [s1 EXCEPT !.weighted_probability_sum = @ + v.stake_amount * v.predicted_probability]
                   ELSE s1
         IN  [s2 EXCEPT !.total_participants = @ + 1]
    ELSE s

\* Faulty variant: the entry is folded whatever vote_count is.
LoopStep_nocount(s, vs, n, k) == FoldVote(s, vs[k + 1])

\* One iteration of `for i in 0..100 { if i < vote_count { ... } }`; k counts from 0.
LoopStep(s, vs, n, k) == IF k < n THEN FoldVote(s, vs[k + 1]) ELSE s

\* The whole loop, from iteration k on.
RECURSIVE FoldFrom(_, _, _, _)
FoldFrom(s, vs, n, k) ==
    IF k >= Len(vs) THEN s ELSE FoldFrom(LoopStep(s, vs, n, k), vs, n, k + 1)

\* x.to_le_bytes()[k]
RECURSIVE LeByte(_, _)
LeByte(x, k) == IF k = 0 THEN x % 256 ELSE LeByte(x \div 256, k - 1)

to_le_bytes(x, width) == [k \in 1..width |-> LeByte(x, k - 1)]

\* Faulty variant: with no stake the probability is left at 0.
market_probability_nodefault(s) ==
    IF s.total_yes_stake + s.total_no_stake > 0
    THEN s.weighted_probability_sum \div (s.total_yes_stake + s.total_no_stake)
    ELSE 0

\* market_probability (lib.rs 425-430)
market_probability(s) ==
    IF s.total_yes_stake + s.total_no_stake > 0
    THEN s.weighted_probability_sum \div (s.total_yes_stake + s.total_no_stake)
    ELSE 50

\* result[0..28] as the circuit packs it; result[29..32] stay 0.
Reveal(s) ==
    to_le_bytes(s.total_yes_votes, 4) \o to_le_bytes(s.total_no_votes, 4)
      \o to_le_bytes(s.total_yes_stake, 8) \o to_le_bytes(s.total_no_stake, 8)
      \o to_le_bytes(s.total_participants, 4)
      \o << market_probability(s) % 256 >> \o << 0, 0, 0 >>

NoResult == [k \in 1..32 |-> 0]

\* u32::from_le_bytes
RECURSIVE from_le_bytes(_)
from_le_bytes(bytes) ==
    IF bytes = << >> THEN 0 ELSE Head(bytes) + 256 * from_le_bytes(Tail(bytes))

\* The fields aggregate_votes_callback parses from the returned buffer
\* (lib.rs 430-434); `bytes[a..b]` is SubSeq(bytes, a + 1, b).  A u64 field is
\* held as the 8 little-endian bytes it was read from.
VotesAggregatedEvent(bytes) ==
    [emitted |-> TRUE,
     total_yes_votes |-> from_le_bytes(SubSeq(bytes, 1, 4)),
     total_no_votes |-> from_le_bytes(SubSeq(bytes, 5, 8)),
     total_stake |-> SubSeq(bytes, 9, 16),
     yes_stake |-> SubSeq(bytes, 17, 24),
     no_stake |-> SubSeq(bytes, 25, 32)]

NoEvent == [emitted |-> FALSE, total_yes_votes |-> 0, total_no_votes |-> 0,
            total_stake |-> [k \in 1..8 |-> 0], yes_stake |-> [k \in 1..8 |-> 0],
            no_stake |-> [k \in 1..8 |-> 0]]

AggregateIdle ==
    /\ votes = << >> /\ vote_count = 0 /\ current_state = ZeroState /\ state = ZeroState
    /\ i = 0 /\ result = NoResult /\ apc = "idle" /\ calls = 0 /\ folded = ZeroState
    /\ event = NoEvent

(***************************************************************************)
(* Accounts of the coordinator program.                                    *)
(***************************************************************************)
Users == {"alice", "bob"}
Oracle == "oracle"

VotingEndsAt == 1       \* market.voting_ends_at of the one market explored
MaxTime == 1            \* the clock runs from 0 to MaxTime

\* Option<bool>: << >> is None, << b >> is Some(b).
None == << >>
Some(b) == << b >>

\* create_market (lib.rs 175-190, lib_full.rs 124-139)
NewMarket == [status |-> "Active", voting_ends_at |-> VotingEndsAt,
              total_stake |-> 0, yes_stake |-> 0, no_stake |-> 0,
              participant_count |-> 0, oracle_pubkey |-> Oracle,
              resolved_outcome |-> None]

\* initialize_user_profile (lib.rs 221-236, lib_full.rs 175-190)
NewProfile == [total_markets_participated |-> 0, correct_predictions |-> 0,
               total_winnings |-> 0, reputation_score |-> 1000,
               streak_current |-> 0, streak_best |-> 0]

\* A position account that `init` has not created yet.
NoPosition == [initialized |-> FALSE, vote_choice |-> "Skip", stake_amount |-> 0,
               predicted_probability |-> 0, is_claimed |-> FALSE, payout_amount |-> 0,
               encrypted_vote |-> NoVote]

NoResultYet == [op |-> "none", user |-> "none", err |-> "Ok"]

\* The proposers of oracle proposals for the market; the proposal account is a
\* PDA of (market, proposer) (lib.rs 1196-1203).
Proposers == {"carol"}

\* An OracleProposal account that `init` has not created yet.
NoProposal == [status |-> "None", oracle_type |-> "ChainlinkPrice", proposed_outcome |-> FALSE,
               confidence_score |-> 0, challenge_period_end |-> 0, dispute_count |-> 0,
               final_outcome |-> None]

OracleIdle ==
    /\ proposal = [p \in Proposers |-> NoProposal]
    /\ consensus_comps = [p \in Proposers |-> 0]
    /\ manipulation_comps = [p \in Proposers |-> 0]
    /\ oracle_dispute = [p \in Proposers |-> {}]

CoordIdle ==
    /\ OracleIdle
    /\ program = "arcium" /\ now = 0 /\ market = NewMarket
    /\ position = [u \in Users |-> NoPosition]
    /\ profile = [u \in Users |-> NewProfile]
    /\ vote_comps = {} /\ agg_comps = 0
    /\ payout_comps = [u \in Users |-> << >>]
    /\ credited = [u \in Users |-> 0]
    /\ ix_result = NoResultYet

(***************************************************************************)
(* Circuit calculate_payout (lib.rs 437-480, advance.rs 197-240).          *)
(***************************************************************************)
\* Faulty variant: the accuracy factor of outcome No is the probability itself.
calculate_payout_nofactor(d) ==
    IF d.user_vote = d.market_outcome
    THEN LET losing_stake_share ==
                 IF d.total_winning_stake > 0
                 THEN (d.user_stake * d.total_losing_stake) \div d.total_winning_stake
                 ELSE 0
             accuracy_factor ==
                 IF d.market_outcome = 1 \/ d.market_outcome = 0 THEN d.user_probability
                 ELSE 50
             accuracy_bonus == (d.accuracy_bonus * accuracy_factor) \div 100
             conviction_bonus == (d.conviction_bonus * d.user_conviction) \div 1000
         IN  d.user_stake + losing_stake_share + accuracy_bonus + conviction_bonus
    ELSE 0

\* Faulty variant: a losing position gets its stake back.
calculate_payout_refund(d) ==
    IF d.user_vote = d.market_outcome
    THEN LET losing_stake_share ==
                 IF d.total_winning_stake > 0
                 THEN (d.user_stake * d.total_losing_stake) \div d.total_winning_stake
                 ELSE 0
             accuracy_factor ==
                 IF d.market_outcome = 1 THEN d.user_probability
                 ELSE IF d.market_outcome = 0 THEN (100 - d.user_probability) % 256
                 ELSE 50
             accuracy_bonus == (d.accuracy_bonus * accuracy_factor) \div 100
             conviction_bonus == (d.conviction_bonus * d.user_conviction) \div 1000
         IN  d.user_stake + losing_stake_share + accuracy_bonus + conviction_bonus
    ELSE d.user_stake

\* calculate_payout; `100 - user_probability` is a u8 subtraction.
calculate_payout(d) ==
    IF d.user_vote = d.market_outcome
    THEN LET losing_stake_share ==
                 IF d.total_winning_stake > 0
                 THEN (d.user_stake * d.total_losing_stake) \div d.total_winning_stake
                 ELSE 0
             accuracy_factor ==
                 IF d.market_outcome = 1 THEN d.user_probability
                 ELSE IF d.market_outcome = 0 THEN (100 - d.user_probability) % 256
                 ELSE 50
             accuracy_bonus == (d.accuracy_bonus * accuracy_factor) \div 100
             conviction_bonus == (d.conviction_bonus * d.user_conviction) \div 1000
         IN  d.user_stake + losing_stake_share + accuracy_bonus + conviction_bonus
    ELSE 0

\* Inputs of calculate_payout: the worked example of the payout rule (stake 100,
\* pools 500 and 300, bonus pools 50 and 200, probability 80, conviction 500)
\* and values around it, with zero pools, an outcome byte that is neither Yes
\* nor No, and a probability beyond 100.
PayoutInputs ==
    [user_stake : {0, 7, 100}, user_vote : {0, 1, 2}, market_outcome : {0, 1, 2},
     user_probability : {0, 80, 100, 101}, user_conviction : {0, 500, 1000},
     total_winning_stake : {0, 3, 500}, total_losing_stake : {0, 300},
     accuracy_bonus : {0, 50}, conviction_bonus : {0, 200}]

NoPayoutData == [user_stake |-> 0, user_vote |-> 0, market_outcome |-> 0,
                 user_probability |-> 0, user_conviction |-> 0, total_winning_stake |-> 0,
                 total_losing_stake |-> 0, accuracy_bonus |-> 0, conviction_bonus |-> 0]

PayoutIdle == payout_data = NoPayoutData /\ final_payout = 0 /\ ppc = "idle"

(***************************************************************************)
(* Circuit calculate_market_odds (lib.rs 483-527, advance.rs 243-287).     *)
(***************************************************************************)
\* Faulty variant: the liquidity thresholds are inclusive (>= 10000, >= 1000).
liquidity_factor_inclusive(total_stake) ==
    IF total_stake >= 10000 THEN 95 ELSE IF total_stake >= 1000 THEN 90 ELSE 85

\* liquidity_factor (lib.rs 497-503)
liquidity_factor(total_stake) ==
    IF total_stake > 10000 THEN 95 ELSE IF total_stake > 1000 THEN 90 ELSE 85

Max(a, b) == IF a > b THEN a ELSE b

Min(a, b) == IF a < b THEN a ELSE b

\* A fresh result buffer, `[0u8; 8]`
NoOdds == [k \in 1..8 |-> 0]

\* Faulty variant: with no stake the buffer is returned as it was created.
calculate_market_odds_nodefault(s) ==
    LET total_stake == s.total_yes_stake + s.total_no_stake
    IN  IF total_stake > 0
        THEN LET yes_probability == (s.total_yes_stake * 100) \div total_stake
                 no_probability == (s.total_no_stake * 100) \div total_stake
                 adjusted_yes == (yes_probability * liquidity_factor(total_stake)) \div 100
                 adjusted_no == (no_probability * liquidity_factor(total_stake)) \div 100
             IN  << adjusted_yes % 256, adjusted_no % 256 >>
                   \o to_le_bytes(s.total_participants, 4)
                   \o << IF total_stake > 1000 THEN 1 ELSE 0 >>
                   \o << ((s.conviction_weighted_yes + s.conviction_weighted_no)
                            \div Max(total_stake, 1)) % 256 >>
        ELSE NoOdds

\* calculate_market_odds: the 8 bytes it reveals; `as u8` keeps the low byte.
calculate_market_odds(s) ==
    LET total_stake == s.total_yes_stake + s.total_no_stake
    IN  IF total_stake > 0
        THEN LET yes_probability == (s.total_yes_stake * 100) \div total_stake
                 no_probability == (s.total_no_stake * 100) \div total_stake
                 adjusted_yes == (yes_probability * liquidity_factor(total_stake)) \div 100
                 adjusted_no == (no_probability * liquidity_factor(total_stake)) \div 100
             IN  << adjusted_yes % 256, adjusted_no % 256 >>
                   \o to_le_bytes(s.total_participants, 4)
                   \o << IF total_stake > 1000 THEN 1 ELSE 0 >>
                   \o << ((s.conviction_weighted_yes + s.conviction_weighted_no)
                            \div Max(total_stake, 1)) % 256 >>
        ELSE [NoOdds EXCEPT ![1] = 50, ![2] = 50, ![7] = 0]

\* Inputs of calculate_market_odds: no stake, and totals on both sides of the
\* liquidity thresholds 1000 and 10000 (1000, 1001, 10000, 10001).
OddsInputs ==
    [total_yes_votes : {0}, total_no_votes : {0}, total_skip_votes : {0},
     total_yes_stake : {0, 1, 600, 601, 8000}, total_no_stake : {0, 400, 2000, 2001},
     total_participants : {0, 3, 300}, weighted_probability_sum : {0},
     conviction_weighted_yes : {0, 7000}, conviction_weighted_no : {0, 5},
     last_updated : {0}]

OddsIdle == odds_state = ZeroState /\ odds_result = NoOdds /\ opc = "idle"

(***************************************************************************)
(* The three products of calculate_payout (lib.rs 450, 467, 471) on values *)
(* of the full u64 range.  A u64 is held as its 8 little-endian bytes; the *)
(* exact product of two of them has 16 bytes, of which a u64                *)
(* multiplication keeps the low 8.  What the circuit does when the high    *)
(* bytes are not zero is not fixed by the source: the product wraps or the *)
(* computation fails.                                                      *)
(***************************************************************************)
Digit(x, k) == IF k \in 1..Len(x) THEN x[k] ELSE 0

\* Sum of the byte products a[j] * b[k + 1 - j] of column k, from j on.
RECURSIVE ColSum(_, _, _, _)
ColSum(a, b, k, j) ==
    IF j > k THEN 0 ELSE Digit(a, j) * Digit(b, k + 1 - j) + ColSum(a, b, k, j + 1)

RECURSIVE MulDigits(_, _, _, _)
MulDigits(a, b, k, carry) ==
    IF k > 16 THEN << >>
    ELSE LET t == ColSum(a, b, k, 1) + carry
         IN  << t % 256 >> \o MulDigits(a, b, k + 1, t \div 256)

\* The exact product of two u64 values, 16 bytes.
wide_mul(a, b) == MulDigits(a, b, 1, 0)

\* `a * b` on u64: the outcomes the build can produce.
mul_u64(a, b) ==
    IF SubSeq(wide_mul(a, b), 9, 16) = [k \in 1..8 |-> 0]
    THEN { [value |-> wide_mul(a, b), failed |-> FALSE] }
    ELSE { [value |-> SubSeq(wide_mul(a, b), 1, 8) \o [k \in 1..8 |-> 0], failed |-> FALSE],
           [value |-> [k \in 1..16 |-> 0], failed |-> TRUE] }

\* u64 values: small ones, 2^32, and the largest (2^64 - 1).
TwoTo32 == << 0, 0, 0, 0, 1, 0, 0, 0 >>
MaxU64 == [k \in 1..8 |-> 255]

ProductInputs ==
    [user_stake : {to_le_bytes(100, 8), TwoTo32, MaxU64},
     total_losing_stake : {to_le_bytes(0, 8), to_le_bytes(300, 8), TwoTo32},
     accuracy_bonus : {to_le_bytes(50, 8), MaxU64},
     accuracy_factor : {to_le_bytes(80, 8), to_le_bytes(1, 8)},
     conviction_bonus : {to_le_bytes(200, 8), TwoTo32 },
     user_conviction : {to_le_bytes(1, 8), to_le_bytes(1000, 8)}]

NoProduct == [value |-> [k \in 1..16 |-> 0], failed |-> FALSE]
NoProducts == [losing |-> NoProduct, accuracy |-> NoProduct, conviction |-> NoProduct]

ProductIdle ==
    /\ mul_args = [f \in {"user_stake", "total_losing_stake", "accuracy_bonus",
                          "accuracy_factor", "conviction_bonus", "user_conviction"}
                     |-> to_le_bytes(0, 8)]
    /\ mul_out = NoProducts /\ mpc = "idle"

(***************************************************************************)
(* Circuit detect_manipulation (lib.rs 530-597, advance.rs 290-357).       *)
(***************************************************************************)
DetectCapacity == 50    \* `[VoteData; 50]`, `for i in 0..50`

\* A vote as detect_manipulation reads it: probability, conviction, timestamp.
DVote(p, k, t) == [MkVote(1, 10, p, k) EXCEPT !.timestamp = t]

\* `time_diff < 5` (lib.rs 555-561)
same_timestamp(vote1, vote2) ==
    LET time_diff == IF vote1.timestamp > vote2.timestamp
                     THEN vote1.timestamp - vote2.timestamp
                     ELSE vote2.timestamp - vote1.timestamp
    IN  time_diff < 5

same_probability(vote1, vote2) == vote1.predicted_probability = vote2.predicted_probability

same_conviction(vote1, vote2) == vote1.conviction_score = vote2.conviction_score

\* The test that guards the increment of the counter named.
Matches(counter, vote1, vote2) ==
    CASE counter = "same_timestamp_count" -> same_timestamp(vote1, vote2)
      [] counter = "same_probability_count" -> same_probability(vote1, vote2)
      [] counter = "same_conviction_count" -> same_conviction(vote1, vote2)

\* The increments one run of the inner loop `for j in (i + 1)..50` makes to
\* the counter named, for the outer index a (counted from 0).
InnerLoop(vs, n, a, counter) ==
    Cardinality({ b \in (a + 1)..(DetectCapacity - 1) :
                    b < n /\ Matches(counter, vs[a + 1], vs[b + 1]) })

\* Faulty variant: the timing threshold is a third of the count.
timing_threshold_third(n) == n \div 3

\* `vote_count / 4` (lib.rs 581) and `vote_count / 3` (lib.rs 585, 589)
timing_threshold(n) == n \div 4

repeat_threshold(n) == n \div 3

\* suspicious_patterns after the three threshold tests (lib.rs 581-591)
suspicious_patterns(n, t, p, c) ==
    (IF t > timing_threshold(n) THEN 1 ELSE 0)
      + (IF p > repeat_threshold(n) THEN 1 ELSE 0)
      + (IF c > repeat_threshold(n) THEN 1 ELSE 0)

\* The batches explored, each DetectCapacity long: the same vote in every
\* entry; votes 5 and 4 time units apart with probabilities and convictions
\* all different or repeating every other entry; and a batch whose first 12
\* entries hold 4 pairs close in time, 5 with equal probability and 3 with
\* equal conviction.
UniformBatch == [k \in 1..DetectCapacity |-> DVote(50, 500, 100)]

SpacedBatch == [k \in 1..DetectCapacity |-> DVote(k, k, 5 * k)]

CloseBatch == [k \in 1..DetectCapacity |-> DVote(k % 2, k, 4 * k)]

ExampleTimestamps == << 0, 1, 2, 100, 101, 200, 300, 400, 500, 600, 700, 800 >>
ExampleProbabilities == << 50, 50, 50, 60, 60, 70, 70, 1, 2, 3, 4, 5 >>
ExampleConvictions == << 500, 500, 500, 1, 2, 3, 4, 5, 6, 7, 8, 9 >>

ExampleBatch ==
    [k \in 1..DetectCapacity |->
        IF k <= 12
        THEN DVote(ExampleProbabilities[k], ExampleConvictions[k], ExampleTimestamps[k])
        ELSE DVote(10 + k, 10 + k, 1000 * k)]

DetectBatches == { UniformBatch, SpacedBatch, CloseBatch, ExampleBatch }
DetectCounts == 0..DetectCapacity

DetectIdle ==
    /\ det_votes = << >> /\ det_count = 0 /\ det_i = 0
    /\ same_timestamp_count = 0 /\ same_probability_count = 0 /\ same_conviction_count = 0
    /\ manipulation_score = 0 /\ dpc = "idle"

(***************************************************************************)
(* OracleResolution::resolve_with_validators (oracle_system.rs 288-329).   *)
(* A validator is kept as its is_active flag and the weight that           *)
(* calculate_voting_weight returns for it; a vote as its bool and weight.  *)
(* min_participation is an f64; the values explored are the exactly        *)
(* representable 1/2 and 1, so the comparison of the f64 quotient with it  *)
(* is the comparison of the exact ratio.                                   *)
(***************************************************************************)
MaxVotes == 3

RECURSIVE SumWeights(_)
SumWeights(seq) ==
    IF seq = << >> THEN 0 ELSE Head(seq).weight + SumWeights(Tail(seq))

\* validators.iter().filter(|v| v.is_active).map(..).sum()
total_eligible_weight(validators) ==
    SumWeights(SelectSeq(validators, LAMBDA v : v.is_active))

\* participation_rate >= min_participation, with total_vote_weight / 0 being
\* +infinity for a positive numerator and NaN (which compares false) for 0 / 0
participation_met(total_vote_weight, eligible, mp) ==
    IF eligible = 0
    THEN total_vote_weight > 0
    ELSE total_vote_weight * mp.den >= mp.num * eligible

resolve_with_validators(validators, vts, mp) ==
    LET total_vote_weight == SumWeights(vts)
        yes_weight == SumWeights(SelectSeq(vts, LAMBDA v : v.vote))
        no_weight == SumWeights(SelectSeq(vts, LAMBDA v : ~ v.vote))
        threshold == (total_vote_weight * 2) \div 3
    IN  IF ~ participation_met(total_vote_weight, total_eligible_weight(validators), mp)
        THEN "InsufficientValidatorParticipation"
        ELSE IF yes_weight >= threshold THEN "Ok(true)"
        ELSE IF no_weight >= threshold THEN "Ok(false)"
        ELSE "NoConsensusReached"

ValidatorSets == [1..2 -> [is_active : BOOLEAN, weight : {0, 3}]]
ValidatorVotes ==
    UNION { [1..n -> [vote : BOOLEAN, weight : {1, 3}]] : n \in 0..MaxVotes }
MinParticipations == { [num |-> 1, den |-> 2], [num |-> 1, den |-> 1] }

ConsensusIdle ==
    /\ rv_validators = << >> /\ rv_votes = << >>
    /\ rv_min_participation = [num |-> 0, den |-> 1]
    /\ rv_result = "none" /\ rpc = "idle"

(***************************************************************************)
(* sqrt_approx (encrypted-ixs/src/lib.rs 233-248), the square root that    *)
(* calculate_risk_metrics takes of the variance (lib.rs 111-112).          *)
(***************************************************************************)
NewtonIterations == 8
MaxSqrtInput == 100

\* let new_result = (result + x / result) / 2
newton_step(x, r) == (r + x \div r) \div 2

\* The arguments explored: every small one, and two large ones.
SqrtInputs == (0..MaxSqrtInput) \cup { 1048576, 1073741824 }

SqrtIdle == sq_x = 0 /\ sq_result = 0 /\ sq_i = 0 /\ sqpc = "idle"

UtilIdle == ConsensusIdle /\ SqrtIdle

PureIdle == PayoutIdle /\ OddsIdle /\ ProductIdle /\ DetectIdle /\ UtilIdle

(***************************************************************************)
(* The coordinator program, build lib.rs ("arcium").  An instruction that  *)
(* fails changes no account; ix_result records what the last one returned. *)
(* queue_computation is still a TODO in submit_private_vote,               *)
(* aggregate_market_votes and calculate_user_payout: the model queues the  *)
(* computation where the TODO stands, and a callback is delivered only for *)
(* a computation that was queued.                                          *)
(***************************************************************************)
MaxInFlight == 2        \* computations of one kind in flight for one account

\* The plaintext arguments of a vote submission explored: a Yes, a No and a
\* Skip vote, a vote with no stake and one with probability 101.
SubmitArgs ==
    { [stake_amount |-> 10, vote_choice |-> "Yes", predicted_probability |-> 80],
      [stake_amount |-> 30, vote_choice |-> "No", predicted_probability |-> 80],
      [stake_amount |-> 10, vote_choice |-> "Skip", predicted_probability |-> 80],
      [stake_amount |-> 0, vote_choice |-> "Yes", predicted_probability |-> 80],
      [stake_amount |-> 10, vote_choice |-> "Yes", predicted_probability |-> 101] }

\* The encrypted payload of a submission is independent of the plaintext
\* arguments: one payload the validator accepts, one it rejects (nonce = 0).
AcceptedPayload == MkVote(1, 10, 80, 500)
RejectedPayload == [AcceptedPayload EXCEPT !.nonce = 0]

\* `vote_choice as u8` on enum VoteChoice { Yes, No, Skip } (lib.rs 57-61, 369)
VoteChoiceAsU8(c) == CASE c = "Yes" -> 0 [] c = "No" -> 1 [] c = "Skip" -> 2

\* `resolved_outcome.unwrap() as u8` (lib.rs 370)
BoolAsU8(b) == IF b THEN 1 ELSE 0

\* The PayoutData fields calculate_user_payout passes no argument for.
PayoutRest == { [user_probability |-> 0, user_conviction |-> 0, total_winning_stake |-> 0,
                 total_losing_stake |-> 0, accuracy_bonus |-> 0, conviction_bonus |-> 0],
                [user_probability |-> 80, user_conviction |-> 500, total_winning_stake |-> 10,
                 total_losing_stake |-> 5, accuracy_bonus |-> 0, conviction_bonus |-> 0] }

Result(op, u, err) == [op |-> op, user |-> u, err |-> err]

Tick ==
    /\ now < MaxTime
    /\ now' = now + 1
    /\ UNCHANGED <<program, market, position, profile, vote_comps, agg_comps,
                   payout_comps, credited, ix_result, oracleVars,
                   validatorVars, aggregateVars, pureVars>>

\* Faulty variant: the market's status is not looked at.
submit_vote_err_nostatus(u, stake_amount, predicted_probability) ==
    IF position[u].initialized THEN "AccountInUse"
    ELSE IF ~(now < market.voting_ends_at) THEN "VotingPeriodEnded"
    ELSE IF ~(stake_amount > 0) THEN "InvalidStakeAmount"
    ELSE IF ~(predicted_probability <= 100) THEN "InvalidProbability"
    ELSE "Ok"

\* What submit_private_vote returns (lib.rs 249-258; `init`, lib.rs 971-978)
submit_vote_err(u, stake_amount, predicted_probability) ==
    IF position[u].initialized THEN "AccountInUse"
    ELSE IF market.status # "Active" THEN "MarketNotActive"
    ELSE IF ~(now < market.voting_ends_at) THEN "VotingPeriodEnded"
    ELSE IF ~(stake_amount > 0) THEN "InvalidStakeAmount"
    ELSE IF ~(predicted_probability <= 100) THEN "InvalidProbability"
    ELSE "Ok"

NewPosition(stake_amount, vote_choice, predicted_probability, enc) ==
    [initialized |-> TRUE, vote_choice |-> vote_choice, stake_amount |-> stake_amount,
     predicted_probability |-> predicted_probability, is_claimed |-> FALSE,
     payout_amount |-> 0, encrypted_vote |-> enc]

\* submit_private_vote (lib.rs 239-293)
ix_submit_private_vote(u, stake_amount, vote_choice, predicted_probability, enc) ==
    /\ program = "arcium"
    /\ LET err == submit_vote_err(u, stake_amount, predicted_probability)
       IN  /\ ix_result' = Result("submit_private_vote", u, err)
           /\ IF err = "Ok"
              THEN /\ position' = [position EXCEPT
                         ![u] = NewPosition(stake_amount, vote_choice, predicted_probability, enc)]
                   /\ vote_comps' = vote_comps \cup {u}
              ELSE UNCHANGED <<position, vote_comps>>
    /\ UNCHANGED <<program, now, market, profile, agg_comps, payout_comps, credited,
                   oracleVars,
                   validatorVars, aggregateVars, pureVars>>

\* The validator's result arrives.  submit_vote_callback is commented out
\* (lib.rs 378-416): the program has no handler for it and no account changes.
submit_vote_callback(u) ==
    /\ program = "arcium"
    /\ u \in vote_comps
    /\ vote_comps' = vote_comps \ {u}
    /\ UNCHANGED <<program, now, market, position, profile, agg_comps, payout_comps,
                   credited, ix_result, oracleVars,
                   validatorVars, aggregateVars, pureVars>>

\* Faulty variant: the market is aggregated in any status.
aggregate_err_any == "Ok"

\* What aggregate_market_votes returns (lib.rs 300-304)
aggregate_err ==
    IF market.status = "Active" \/ market.status = "Locked" THEN "Ok"
    ELSE "CannotAggregateVotes"

\* aggregate_market_votes (lib.rs 296-316)
ix_aggregate_market_votes ==
    /\ program = "arcium"
    /\ agg_comps < MaxInFlight
    /\ ix_result' = Result("aggregate_market_votes", "none", aggregate_err)
    /\ IF aggregate_err = "Ok"
       THEN /\ market' = [market EXCEPT !.status = "Locked"]
            /\ agg_comps' = agg_comps + 1
       ELSE UNCHANGED <<market, agg_comps>>
    /\ UNCHANGED <<program, now, position, profile, vote_comps, payout_comps, credited,
                   oracleVars,
                   validatorVars, aggregateVars, pureVars>>

\* aggregate_votes_callback (lib.rs 419-447): parses the buffer and emits an
\* event; it writes no account.
aggregate_votes_callback ==
    /\ program = "arcium"
    /\ agg_comps > 0
    /\ agg_comps' = agg_comps - 1
    /\ ix_result' = Result("aggregate_votes_callback", "none", "Ok")
    /\ UNCHANGED <<program, now, market, position, profile, vote_comps, payout_comps,
                   credited, oracleVars,
                   validatorVars, aggregateVars, pureVars>>

\* Faulty variant: the oracle resolves the market in any status.
resolve_err_anystatus(signer) ==
    IF signer # market.oracle_pubkey THEN "InvalidOracle" ELSE "Ok"

\* What resolve_market returns (lib.rs 324-331)
resolve_err(signer) ==
    IF signer # market.oracle_pubkey THEN "InvalidOracle"
    ELSE IF market.status # "Locked" THEN "CannotResolveMarket"
    ELSE "Ok"

\* resolve_market (lib.rs 319-349)
resolve_market(signer, outcome) ==
    /\ program = "arcium"
    /\ ix_result' = Result("resolve_market", signer, resolve_err(signer))
    /\ IF resolve_err(signer) = "Ok"
       THEN market' = [market EXCEPT !.status = "Resolved", !.resolved_outcome = Some(outcome)]
       ELSE UNCHANGED market
    /\ UNCHANGED <<program, now, position, profile, vote_comps, agg_comps, payout_comps,
                   credited, oracleVars,
                   validatorVars, aggregateVars, pureVars>>

\* Faulty variant: is_claimed is not checked.
calculate_user_payout_err_nocheck(u) ==
    IF ~position[u].initialized THEN "AccountNotInitialized"
    ELSE IF market.status # "Resolved" THEN "MarketNotResolved"
    ELSE "Ok"

\* What calculate_user_payout returns (lib.rs 356-363; the position account
\* must exist, lib.rs 1113-1118)
calculate_user_payout_err(u) ==
    IF ~position[u].initialized THEN "AccountNotInitialized"
    ELSE IF market.status # "Resolved" THEN "MarketNotResolved"
    ELSE IF position[u].is_claimed THEN "PayoutAlreadyClaimed"
    ELSE "Ok"

\* calculate_user_payout (lib.rs 352-376): the arguments of the computation are
\* read from the accounts when it is queued.
calculate_user_payout(u) ==
    /\ program = "arcium"
    /\ Len(payout_comps[u]) < MaxInFlight
    /\ ix_result' = Result("calculate_user_payout", u, calculate_user_payout_err(u))
    /\ IF calculate_user_payout_err(u) = "Ok"
       THEN payout_comps' = [payout_comps EXCEPT ![u] = Append(@,
                [user_stake |-> position[u].stake_amount,
                 user_vote |-> VoteChoiceAsU8(position[u].vote_choice),
                 market_outcome |-> BoolAsU8(market.resolved_outcome[1])])]
       ELSE UNCHANGED payout_comps
    /\ UNCHANGED <<program, now, market, position, profile, vote_comps, agg_comps,
                   credited, oracleVars,
                   validatorVars, aggregateVars, pureVars>>

RemoveAt(q, k) == [j \in 1..(Len(q) - 1) |-> IF j < k THEN q[j] ELSE q[j + 1]]

\* The accuracy and reputation update shared by payout_callback (lib.rs 472-496)
\* and claim_payout (lib_full.rs 337-360); a Skip position returns before it.
UpdateAccuracy(p, vote_choice) ==
    IF vote_choice = "Skip" THEN p
    ELSE LET hit == Some(vote_choice = "Yes") = market.resolved_outcome
             p1 == IF hit
                   THEN [p EXCEPT !.correct_predictions = @ + 1,
                                  !.streak_current = @ + 1,
                                  !.streak_best = IF p.streak_current + 1 > @
                                                  THEN p.streak_current + 1 ELSE @]
                   ELSE [p EXCEPT !.streak_current = 0]
             accuracy == IF p1.total_markets_participated > 0
                         THEN (p1.correct_predictions * 100) \div p1.total_markets_participated
                         ELSE 50
         IN  [p1 EXCEPT !.reputation_score = accuracy * 10 + p1.streak_current * 5]

\* payout_callback (lib.rs 450-506), delivering computation k of user u
payout_callback(u, k, rest) ==
    /\ program = "arcium"
    /\ k \in 1..Len(payout_comps[u])
    /\ LET payout_amount == calculate_payout(payout_comps[u][k] @@ rest)
       IN  /\ position' = [position EXCEPT ![u].payout_amount = payout_amount,
                                           ![u].is_claimed = TRUE]
           /\ profile' = [profile EXCEPT ![u] =
                  UpdateAccuracy([@ EXCEPT !.total_winnings = @ + payout_amount],
                                 position[u].vote_choice)]
    /\ payout_comps' = [payout_comps EXCEPT ![u] = RemoveAt(@, k)]
    /\ credited' = [credited EXCEPT ![u] = @ + 1]
    /\ ix_result' = Result("payout_callback", u, "Ok")
    /\ UNCHANGED <<program, now, market, vote_comps, agg_comps, oracleVars,
                   validatorVars, aggregateVars, pureVars>>

(***************************************************************************)
(* Oracle resolution of build lib.rs: a proposal is created for a Locked   *)
(* market, the consensus computation is requested once its challenge       *)
(* period is over, and the callback resolves the market when consensus was *)
(* reached.  The consensus circuit is not part of the repository: the      *)
(* bytes it returns are any values.                                        *)
(***************************************************************************)
OracleTypes == {"ChainlinkPrice", "CustomValidated"}

\* challenge_period of create_oracle_proposal, in seconds (lib.rs 536-541)
challenge_period(oracle_type) ==
    CASE oracle_type = "UmaOptimistic" -> 24 * 60 * 60
      [] oracle_type = "ChainlinkPrice" -> 2 * 60 * 60
      [] oracle_type = "CustomValidated" -> 12 * 60 * 60
      [] oracle_type = "Community" -> 48 * 60 * 60

\* What create_oracle_proposal returns (lib.rs 520-524; `init`, lib.rs 1196-1203)
create_proposal_err(p, confidence_score) ==
    IF proposal[p].status # "None" THEN "AccountInUse"
    ELSE IF market.status # "Locked" THEN "MarketNotLocked"
    ELSE IF ~(confidence_score <= 100) THEN "InvalidConfidenceScore"
    ELSE "Ok"

\* create_oracle_proposal (lib.rs 511-562)
create_oracle_proposal(p, oracle_type, proposed_outcome, confidence_score) ==
    /\ program = "arcium"
    /\ LET err == create_proposal_err(p, confidence_score)
       IN  /\ ix_result' = Result("create_oracle_proposal", p, err)
           /\ IF err = "Ok"
              THEN proposal' = [proposal EXCEPT ![p] =
                       [status |-> "Proposed", oracle_type |-> oracle_type,
                        proposed_outcome |-> proposed_outcome,
                        confidence_score |-> confidence_score,
                        challenge_period_end |-> now + challenge_period(oracle_type),
                        dispute_count |-> 0, final_outcome |-> None]]
              ELSE UNCHANGED proposal
    /\ UNCHANGED <<program, now, market, position, profile, vote_comps, agg_comps,
                   payout_comps, credited, consensus_comps, manipulation_comps, oracle_dispute,
                   validatorVars, aggregateVars, pureVars>>

\* The clock passes the end of proposal p's challenge period.
PassChallengePeriod(p) ==
    /\ proposal[p].status # "None"
    /\ now <= proposal[p].challenge_period_end
    /\ now' = proposal[p].challenge_period_end + 1
    /\ UNCHANGED <<program, market, position, profile, vote_comps, agg_comps,
                   payout_comps, credited, ix_result, oracleVars,
                   validatorVars, aggregateVars, pureVars>>

\* Faulty variant: a Disputed proposal is accepted like a Proposed one.
consensus_err_disputed(p, consensus_threshold) ==
    IF proposal[p].status = "None" THEN "AccountNotInitialized"
    ELSE IF proposal[p].status \notin {"Proposed", "Disputed"} THEN "ProposalNotActive"
    ELSE IF ~(now > proposal[p].challenge_period_end) THEN "ChallengePeriodActive"
    ELSE IF ~(consensus_threshold >= 51 /\ consensus_threshold <= 100)
         THEN "InvalidConsensusThreshold"
    ELSE "Ok"

\* What calculate_oracle_consensus returns (lib.rs 660-668)
consensus_err(p, consensus_threshold) ==
    IF proposal[p].status = "None" THEN "AccountNotInitialized"
    ELSE IF proposal[p].status # "Proposed" THEN "ProposalNotActive"
    ELSE IF ~(now > proposal[p].challenge_period_end) THEN "ChallengePeriodActive"
    ELSE IF ~(consensus_threshold >= 51 /\ consensus_threshold <= 100)
         THEN "InvalidConsensusThreshold"
    ELSE "Ok"

\* calculate_oracle_consensus (lib.rs 654-691)
calculate_oracle_consensus(p, consensus_threshold) ==
    /\ program = "arcium"
    /\ LET err == consensus_err(p, consensus_threshold)
       IN  /\ ix_result' = Result("calculate_oracle_consensus", p, err)
           /\ IF err = "Ok"
              THEN /\ proposal' = [proposal EXCEPT ![p].status = "Pending"]
                   /\ consensus_comps' = [consensus_comps EXCEPT ![p] = @ + 1]
              ELSE UNCHANGED <<proposal, consensus_comps>>
    /\ UNCHANGED <<program, now, market, position, profile, vote_comps, agg_comps,
                   payout_comps, credited, manipulation_comps, oracle_dispute,
                   validatorVars, aggregateVars, pureVars>>

\* oracle_consensus_callback (lib.rs 819-873), delivering the result of a
\* consensus computation of proposal p: bytes[0] = 1 is consensus_reached,
\* bytes[1] = 1 is final_outcome.
oracle_consensus_callback(p, consensus_reached, final_outcome) ==
    /\ program = "arcium"
    /\ consensus_comps[p] > 0
    /\ consensus_comps' = [consensus_comps EXCEPT ![p] = @ - 1]
    /\ IF consensus_reached
       THEN /\ proposal' = [proposal EXCEPT ![p].status = "Finalized",
                                            ![p].final_outcome = Some(final_outcome)]
            /\ market' = [market EXCEPT !.status = "Resolved",
                                        !.resolved_outcome = Some(final_outcome)]
       ELSE /\ proposal' = [proposal EXCEPT ![p].status = "Invalid"]
            /\ UNCHANGED market
    /\ ix_result' = Result("oracle_consensus_callback", p, "Ok")
    /\ UNCHANGED <<program, now, position, profile, vote_comps, agg_comps,
                   payout_comps, credited, manipulation_comps, oracle_dispute,
                   validatorVars, aggregateVars, pureVars>>

\* The users who may dispute a proposal.
Disputers == {"dave"}

MinDisputeBond == 1000000   \* `dispute_bond >= 1_000_000` (lib.rs 738)

\* What create_oracle_dispute returns (lib.rs 729-738; `init` of the dispute
\* account, lib.rs 1439-1446; the bond transfer, lib.rs 756-766)
create_dispute_err(p, d, reason_len, dispute_bond, funded) ==
    IF proposal[p].status = "None" THEN "AccountNotInitialized"
    ELSE IF d \in oracle_dispute[p] THEN "AccountInUse"
    ELSE IF proposal[p].status # "Proposed" THEN "ProposalNotActive"
    ELSE IF ~(now <= proposal[p].challenge_period_end) THEN "ChallengePeriodExpired"
    ELSE IF ~(reason_len <= 500) THEN "DisputeReasonTooLong"
    ELSE IF ~(dispute_bond >= MinDisputeBond) THEN "InsufficientDisputeBond"
    ELSE IF ~funded THEN "InsufficientFunds"
    ELSE "Ok"

\* create_oracle_dispute (lib.rs 723-777); funded: the disputer's token account
\* holds the bond
create_oracle_dispute(p, d, reason_len, dispute_bond, funded) ==
    /\ program = "arcium"
    /\ LET err == create_dispute_err(p, d, reason_len, dispute_bond, funded)
       IN  /\ ix_result' = Result("create_oracle_dispute", p, err)
           /\ IF err = "Ok"
              THEN /\ oracle_dispute' = [oracle_dispute EXCEPT ![p] = @ \cup {d}]
                   /\ proposal' = [proposal EXCEPT ![p].dispute_count = @ + 1,
                                                    ![p].status = "Disputed"]
              ELSE UNCHANGED <<oracle_dispute, proposal>>
    /\ UNCHANGED <<program, now, market, position, profile, vote_comps, agg_comps,
                   payout_comps, credited, consensus_comps, manipulation_comps,
                   validatorVars, aggregateVars, pureVars>>

\* What detect_manipulation_patterns returns (lib.rs 700; the proposal account
\* must exist, lib.rs 1376-1377)
detect_patterns_err(p, sensitivity_threshold) ==
    IF proposal[p].status = "None" THEN "AccountNotInitialized"
    ELSE IF ~(sensitivity_threshold <= 100) THEN "InvalidSensitivityThreshold"
    ELSE "Ok"

\* detect_manipulation_patterns (lib.rs 694-719): queues the analysis
detect_manipulation_patterns(p, sensitivity_threshold) ==
    /\ program = "arcium"
    /\ manipulation_comps[p] < MaxInFlight
    /\ LET err == detect_patterns_err(p, sensitivity_threshold)
       IN  /\ ix_result' = Result("detect_manipulation_patterns", p, err)
           /\ IF err = "Ok"
              THEN manipulation_comps' = [manipulation_comps EXCEPT ![p] = @ + 1]
              ELSE UNCHANGED manipulation_comps
    /\ UNCHANGED <<program, now, market, position, profile, vote_comps, agg_comps,
                   payout_comps, credited, proposal, consensus_comps, oracle_dispute,
                   validatorVars, aggregateVars, pureVars>>

\* The buffers an analysis can deliver: bytes[0] the detected flag, bytes[1]
\* the score, bytes[2] affected_validators, bytes[3] pattern_type.  The
\* circuit detect_manipulation_patterns is not part of the repository.
ManipulationOutputs == { << d, sc, 0, 0 >> : d \in {0, 1}, sc \in {0, 75, 76, 99} }

\* The test of manipulation_detection_callback (lib.rs 888-893); `bytes[k]` is
\* bytes[k + 1] here.
manipulation_invalidates(bytes) ==
    LET manipulation_detected == bytes[1] = 1
        score == bytes[2]
    IN  manipulation_detected /\ score > 75

\* manipulation_detection_callback (lib.rs 877-916), delivering the result of an
\* analysis of proposal p
manipulation_detection_callback(p, bytes) ==
    /\ program = "arcium"
    /\ manipulation_comps[p] > 0
    /\ manipulation_comps' = [manipulation_comps EXCEPT ![p] = @ - 1]
    /\ IF manipulation_invalidates(bytes)
       THEN proposal' = [proposal EXCEPT ![p].status = "Invalid"]
       ELSE UNCHANGED proposal
    /\ ix_result' = Result("manipulation_detection_callback", p, "Ok")
    /\ UNCHANGED <<program, now, market, position, profile, vote_comps, agg_comps,
                   payout_comps, credited, consensus_comps, oracle_dispute,
                   validatorVars, aggregateVars, pureVars>>

(***************************************************************************)
(* The coordinator program, build lib_full.rs ("full"): public votes, no   *)
(* computations.                                                           *)
(***************************************************************************)

\* Faulty variant: the stake of a Skip vote is added to no_stake.
submit_public_vote_skipstake(u, stake_amount, vote_choice, predicted_probability) ==
    /\ program = "full"
    /\ LET err == submit_vote_err(u, stake_amount, predicted_probability)
       IN  /\ ix_result' = Result("submit_public_vote", u, err)
           /\ IF err = "Ok"
              THEN /\ position' = [position EXCEPT
                         ![u] = NewPosition(stake_amount, vote_choice, predicted_probability, NoVote)]
                   /\ market' = [market EXCEPT
                         !.participant_count = @ + 1,
                         !.total_stake = @ + stake_amount,
                         !.yes_stake = IF vote_choice = "Yes" THEN @ + stake_amount ELSE @,
                         !.no_stake = IF vote_choice # "Yes" THEN @ + stake_amount ELSE @]
                   /\ profile' = [profile EXCEPT ![u].total_markets_participated = @ + 1]
              ELSE UNCHANGED <<position, market, profile>>
    /\ UNCHANGED <<program, now, vote_comps, agg_comps, payout_comps, credited,
                   oracleVars,
                   validatorVars, aggregateVars, pureVars>>

\* submit_public_vote (lib_full.rs 193-253)
submit_public_vote(u, stake_amount, vote_choice, predicted_probability) ==
    /\ program = "full"
    /\ LET err == submit_vote_err(u, stake_amount, predicted_probability)
       IN  /\ ix_result' = Result("submit_public_vote", u, err)
           /\ IF err = "Ok"
              THEN /\ position' = [position EXCEPT
                         ![u] = NewPosition(stake_amount, vote_choice, predicted_probability, NoVote)]
                   /\ market' = [market EXCEPT
                         !.participant_count = @ + 1,
                         !.total_stake = @ + stake_amount,
                         !.yes_stake = IF vote_choice = "Yes" THEN @ + stake_amount ELSE @,
                         !.no_stake = IF vote_choice = "No" THEN @ + stake_amount ELSE @]
                   /\ profile' = [profile EXCEPT ![u].total_markets_participated = @ + 1]
              ELSE UNCHANGED <<position, market, profile>>
    /\ UNCHANGED <<program, now, vote_comps, agg_comps, payout_comps, credited,
                   oracleVars,
                   validatorVars, aggregateVars, pureVars>>

\* What resolve_market returns in lib_full.rs (261-269)
full_resolve_err(signer) ==
    IF signer # market.oracle_pubkey THEN "InvalidOracle"
    ELSE IF ~(market.status = "Active" \/ market.status = "Locked") THEN "CannotResolveMarket"
    ELSE "Ok"

\* resolve_market (lib_full.rs 256-287)
full_resolve_market(signer, outcome) ==
    /\ program = "full"
    /\ ix_result' = Result("resolve_market", signer, full_resolve_err(signer))
    /\ IF full_resolve_err(signer) = "Ok"
       THEN market' = [market EXCEPT !.status = "Resolved", !.resolved_outcome = Some(outcome)]
       ELSE UNCHANGED market
    /\ UNCHANGED <<program, now, position, profile, vote_comps, agg_comps, payout_comps,
                   credited, oracleVars,
                   validatorVars, aggregateVars, pureVars>>

\* Faulty variant: a position that did not win gets its stake back.
claim_payout_amount_refund(u) ==
    IF market.resolved_outcome # None
    THEN LET resolved_outcome == market.resolved_outcome[1]
             user_predicted_correctly ==
                 CASE position[u].vote_choice = "Yes" -> resolved_outcome
                   [] position[u].vote_choice = "No" -> ~resolved_outcome
                   [] position[u].vote_choice = "Skip" -> FALSE
             winning_stake == IF resolved_outcome THEN market.yes_stake ELSE market.no_stake
             losing_stake == IF resolved_outcome THEN market.no_stake ELSE market.yes_stake
         IN  IF user_predicted_correctly
             THEN IF winning_stake > 0
                  THEN position[u].stake_amount
                         + (position[u].stake_amount * losing_stake) \div winning_stake
                  ELSE position[u].stake_amount
             ELSE position[u].stake_amount
    ELSE 0

\* Faulty variant: a winner gets the stake back without a share of the losing side.
claim_payout_amount_noshare(u) ==
    IF market.resolved_outcome # None
    THEN LET resolved_outcome == market.resolved_outcome[1]
             user_predicted_correctly ==
                 CASE position[u].vote_choice = "Yes" -> resolved_outcome
                   [] position[u].vote_choice = "No" -> ~resolved_outcome
                   [] position[u].vote_choice = "Skip" -> FALSE
         IN  IF user_predicted_correctly THEN position[u].stake_amount ELSE 0
    ELSE 0

\* The payout claim_payout computes (lib_full.rs 306-329)
claim_payout_amount(u) ==
    IF market.resolved_outcome # None
    THEN LET resolved_outcome == market.resolved_outcome[1]
             user_predicted_correctly ==
                 CASE position[u].vote_choice = "Yes" -> resolved_outcome
                   [] position[u].vote_choice = "No" -> ~resolved_outcome
                   [] position[u].vote_choice = "Skip" -> FALSE
             winning_stake == IF resolved_outcome THEN market.yes_stake ELSE market.no_stake
             losing_stake == IF resolved_outcome THEN market.no_stake ELSE market.yes_stake
         IN  IF user_predicted_correctly
             THEN IF winning_stake > 0
                  THEN position[u].stake_amount
                         + (position[u].stake_amount * losing_stake) \div winning_stake
                  ELSE position[u].stake_amount
             ELSE 0
    ELSE 0

\* Faulty variant: the market's status is not checked.
claim_payout_err_nostatus(u) ==
    IF ~position[u].initialized THEN "AccountNotInitialized"
    ELSE IF position[u].is_claimed THEN "PayoutAlreadyClaimed"
    ELSE "Ok"

\* Faulty variant: a position that was claimed can be claimed again.
claim_payout_err_reclaim(u) ==
    IF ~position[u].initialized THEN "AccountNotInitialized"
    ELSE IF market.status # "Resolved" THEN "MarketNotResolved"
    ELSE "Ok"

\* What claim_payout returns (lib_full.rs 293-300; the position account must
\* exist, lib_full.rs 455-460)
claim_payout_err(u) ==
    IF ~position[u].initialized THEN "AccountNotInitialized"
    ELSE IF market.status # "Resolved" THEN "MarketNotResolved"
    ELSE IF position[u].is_claimed THEN "PayoutAlreadyClaimed"
    ELSE "Ok"

\* claim_payout (lib_full.rs 290-370)
claim_payout(u) ==
    /\ program = "full"
    /\ ix_result' = Result("claim_payout", u, claim_payout_err(u))
    /\ IF claim_payout_err(u) = "Ok"
       THEN /\ position' = [position EXCEPT ![u].payout_amount = claim_payout_amount(u),
                                            ![u].is_claimed = TRUE]
            /\ profile' = [profile EXCEPT ![u] =
                   UpdateAccuracy([@ EXCEPT !.total_winnings = @ + claim_payout_amount(u)],
                                  position[u].vote_choice)]
            /\ credited' = [credited EXCEPT ![u] = @ + 1]
       ELSE UNCHANGED <<position, profile, credited>>
    /\ UNCHANGED <<program, now, market, vote_comps, agg_comps, payout_comps,
                   oracleVars,
                   validatorVars, aggregateVars, pureVars>>

(***************************************************************************)
(* Spec: the coordinator.  The market exists and both users have a         *)
(* profile; the build is fixed when the program is deployed.               *)
(***************************************************************************)
Init ==
    /\ program \in {"arcium", "full"}
    /\ now = 0 /\ market = NewMarket
    /\ position = [u \in Users |-> NoPosition]
    /\ profile = [u \in Users |-> NewProfile]
    /\ vote_comps = {} /\ agg_comps = 0
    /\ payout_comps = [u \in Users |-> << >>]
    /\ credited = [u \in Users |-> 0]
    /\ ix_result = NoResultYet
    /\ OracleIdle
    /\ ValidatorIdle /\ AggregateIdle /\ PureIdle

Signers == {Oracle, "alice"}

Next ==
    \/ Tick
    \/ \E u \in Users, a \in SubmitArgs :
          ix_submit_private_vote(u, a.stake_amount, a.vote_choice, a.predicted_probability,
                                 AcceptedPayload)
    \/ ix_aggregate_market_votes
    \/ aggregate_votes_callback
    \/ \E signer \in Signers, outcome \in BOOLEAN : resolve_market(signer, outcome)
    \/ \E u \in Users : calculate_user_payout(u)
    \/ \E u \in Users, k \in 1..MaxInFlight, rest \in PayoutRest : payout_callback(u, k, rest)
    \/ \E u \in Users, a \in SubmitArgs :
          submit_public_vote(u, a.stake_amount, a.vote_choice, a.predicted_probability)
    \/ \E signer \in Signers, outcome \in BOOLEAN : full_resolve_market(signer, outcome)
    \/ \E u \in Users : claim_payout(u)

Spec == Init /\ [][Next]_vars

(***************************************************************************)
(* SpecVoting: the voting phase of build lib.rs with the encrypted payload *)
(* of each submission and the arrival of the validator's result.  The      *)
(* payload and the result reach no account, so Spec leaves them out.       *)
(***************************************************************************)
InitVoting ==
    /\ program = "arcium"
    /\ now = 0 /\ market = NewMarket
    /\ position = [u \in Users |-> NoPosition]
    /\ profile = [u \in Users |-> NewProfile]
    /\ vote_comps = {} /\ agg_comps = 0
    /\ payout_comps = [u \in Users |-> << >>]
    /\ credited = [u \in Users |-> 0]
    /\ ix_result = NoResultYet
    /\ OracleIdle
    /\ ValidatorIdle /\ AggregateIdle /\ PureIdle

NextVoting ==
    \/ Tick
    \/ \E u \in Users, a \in SubmitArgs, e \in {AcceptedPayload, RejectedPayload} :
          ix_submit_private_vote(u, a.stake_amount, a.vote_choice, a.predicted_probability, e)
    \/ \E u \in Users : submit_vote_callback(u)
    \/ ix_aggregate_market_votes
    \/ aggregate_votes_callback
    \/ \E signer \in Signers, outcome \in BOOLEAN : resolve_market(signer, outcome)

SpecVoting == InitVoting /\ [][NextVoting]_vars

(***************************************************************************)
(* SpecResolution: one user's position from submission to payout, in       *)
(* either build, with both ways build lib.rs resolves a market:            *)
(* resolve_market and the oracle proposal's consensus.                     *)
(***************************************************************************)
NextResolution ==
    \/ Tick
    \/ \E a \in SubmitArgs :
          ix_submit_private_vote("alice", a.stake_amount, a.vote_choice,
                                 a.predicted_probability, AcceptedPayload)
    \/ ix_aggregate_market_votes
    \/ aggregate_votes_callback
    \/ \E signer \in Signers, outcome \in BOOLEAN : resolve_market(signer, outcome)
    \/ \E p \in Proposers, t \in OracleTypes, outcome \in BOOLEAN, c \in {90, 101} :
          create_oracle_proposal(p, t, outcome, c)
    \/ \E p \in Proposers : PassChallengePeriod(p)
    \/ \E p \in Proposers, c \in {50, 66} : calculate_oracle_consensus(p, c)
    \/ \E p \in Proposers, reached \in BOOLEAN, outcome \in BOOLEAN :
          oracle_consensus_callback(p, reached, outcome)
    \/ calculate_user_payout("alice")
    \/ \E k \in 1..MaxInFlight, rest \in PayoutRest : payout_callback("alice", k, rest)
    \/ \E a \in SubmitArgs :
          submit_public_vote("alice", a.stake_amount, a.vote_choice, a.predicted_probability)
    \/ \E signer \in Signers, outcome \in BOOLEAN : full_resolve_market(signer, outcome)
    \/ claim_payout("alice")

SpecResolution == Init /\ [][NextResolution]_vars

(***************************************************************************)
(* SpecOracle: build lib.rs with one position, the two ways a market is    *)
(* resolved, and the manipulation analysis of the oracle proposal.         *)
(***************************************************************************)
InitOracle == Init /\ program = "arcium"

NextOracle ==
    \/ Tick
    \/ ix_submit_private_vote("alice", AcceptedPayload.stake_amount, "Yes",
                              AcceptedPayload.predicted_probability, AcceptedPayload)
    \/ ix_aggregate_market_votes
    \/ aggregate_votes_callback
    \/ \E signer \in Signers, outcome \in BOOLEAN : resolve_market(signer, outcome)
    \/ \E p \in Proposers, t \in OracleTypes, outcome \in BOOLEAN, c \in {90, 101} :
          create_oracle_proposal(p, t, outcome, c)
    \/ \E p \in Proposers : PassChallengePeriod(p)
    \/ \E p \in Proposers, c \in {50, 66} : calculate_oracle_consensus(p, c)
    \/ \E p \in Proposers, reached \in BOOLEAN, outcome \in BOOLEAN :
          oracle_consensus_callback(p, reached, outcome)
    \/ \E p \in Proposers, d \in Disputers, len \in {20, 501},
         bond \in {MinDisputeBond - 1, MinDisputeBond}, funded \in BOOLEAN :
          create_oracle_dispute(p, d, len, bond, funded)
    \/ \E p \in Proposers, th \in {50, 101} : detect_manipulation_patterns(p, th)
    \/ \E p \in Proposers, bytes \in ManipulationOutputs :
          manipulation_detection_callback(p, bytes)

SpecOracle == InitOracle /\ [][NextOracle]_vars

(***************************************************************************)
(* SpecValidator: one vote, drawn from ValidatorInputs, goes through the   *)
(* circuit submit_private_vote.                                            *)
(***************************************************************************)
InitValidator ==
    /\ vote \in ValidatorInputs /\ is_valid = 1 /\ vpc = "ready"
    /\ AggregateIdle /\ CoordIdle /\ PureIdle

run_submit_private_vote ==
    /\ vpc = "ready"
    /\ is_valid' = submit_private_vote(vote)
    /\ vpc' = "done"
    /\ UNCHANGED <<vote, aggregateVars, coordVars, oracleVars, pureVars>>

NextValidator == run_submit_private_vote

SpecValidator == InitValidator /\ [][NextValidator]_vars

(***************************************************************************)
(* SpecAggregate: the circuit aggregate_market_votes, one loop iteration   *)
(* per step.  The circuit returns the revealed buffer and nothing else, so *)
(* the state the caller holds (current_state) is the same at every call.   *)
(***************************************************************************)
InitAggregate == AggregateIdle /\ ValidatorIdle /\ CoordIdle /\ PureIdle

\* entry: decrypt the arguments (lib.rs 347-349)
aggregate_market_votes(batch, n) ==
    /\ apc = "idle"
    /\ calls < MaxCalls
    /\ votes' = batch
    /\ vote_count' = n
    /\ state' = current_state
    /\ i' = 0
    /\ result' = NoResult
    /\ event' = NoEvent
    /\ apc' = "loop"
    /\ UNCHANGED <<current_state, calls, folded, validatorVars, coordVars, oracleVars, pureVars>>

\* one iteration of the loop (lib.rs 352-380)
aggregate_loop ==
    /\ apc = "loop"
    /\ i < BatchCapacity
    /\ state' = LoopStep(state, votes, vote_count, i)
    /\ folded' = LoopStep(folded, votes, vote_count, i)
    /\ i' = i + 1
    /\ UNCHANGED <<votes, vote_count, current_state, result, apc, calls, event,
                   validatorVars, coordVars, oracleVars, pureVars>>

\* pack and return the revealed buffer (lib.rs 382-433)
aggregate_reveal ==
    /\ apc = "loop"
    /\ i = BatchCapacity
    /\ result' = Reveal(state)
    /\ apc' = "done"
    /\ calls' = calls + 1
    /\ UNCHANGED <<votes, vote_count, current_state, state, i, folded, event,
                   validatorVars, coordVars, oracleVars, pureVars>>

\* aggregate_votes_callback (lib.rs 419-447) receives the buffer the circuit
\* returned, parses it and emits VotesAggregatedEvent
emit_votes_aggregated ==
    /\ apc = "done"
    /\ ~ event.emitted
    /\ event' = VotesAggregatedEvent(result)
    /\ UNCHANGED <<votes, vote_count, current_state, state, i, result, apc, calls, folded,
                   validatorVars, coordVars, oracleVars, pureVars>>

\* the call is over: its arguments and locals are gone, the caller still holds
\* current_state as it was
aggregate_return ==
    /\ apc = "done"
    /\ votes' = << >>
    /\ vote_count' = 0
    /\ state' = ZeroState
    /\ i' = 0
    /\ result' = NoResult
    /\ apc' = "idle"
    /\ UNCHANGED <<current_state, calls, folded, event,
                   validatorVars, coordVars, oracleVars, pureVars>>

NextAggregate ==
    \/ \E batch \in Batches, n \in VoteCounts : aggregate_market_votes(batch, n)
    \/ aggregate_loop
    \/ aggregate_reveal
    \/ emit_votes_aggregated
    \/ aggregate_return

SpecAggregate == InitAggregate /\ [][NextAggregate]_vars

(***************************************************************************)
(* SpecPayout: one PayoutData, drawn from PayoutInputs, goes through the   *)
(* circuit calculate_payout.                                               *)
(***************************************************************************)
InitPayout ==
    /\ payout_data \in PayoutInputs /\ final_payout = 0 /\ ppc = "ready"
    /\ DetectIdle /\ OddsIdle /\ ProductIdle /\ UtilIdle /\ ValidatorIdle /\ AggregateIdle /\ CoordIdle

run_calculate_payout ==
    /\ ppc = "ready"
    /\ final_payout' = calculate_payout(payout_data)
    /\ ppc' = "done"
    /\ UNCHANGED <<payout_data, oddsVars, productVars, detectVars, utilVars, validatorVars, aggregateVars,
                   coordVars, oracleVars>>

NextPayout == run_calculate_payout

SpecPayout == InitPayout /\ [][NextPayout]_vars

(***************************************************************************)
(* SpecOdds: one MarketVotingState, drawn from OddsInputs, goes through    *)
(* the circuit calculate_market_odds.                                      *)
(***************************************************************************)
InitOdds ==
    /\ odds_state \in OddsInputs /\ odds_result = NoOdds /\ opc = "ready"
    /\ DetectIdle /\ PayoutIdle /\ ProductIdle /\ UtilIdle /\ ValidatorIdle /\ AggregateIdle /\ CoordIdle

run_calculate_market_odds ==
    /\ opc = "ready"
    /\ odds_result' = calculate_market_odds(odds_state)
    /\ opc' = "done"
    /\ UNCHANGED <<odds_state, payoutVars, productVars, detectVars, utilVars, validatorVars, aggregateVars,
                   coordVars, oracleVars>>

NextOdds == run_calculate_market_odds

SpecOdds == InitOdds /\ [][NextOdds]_vars

(***************************************************************************)
(* SpecFoldedOdds: calculate_market_odds on a state that the fold of       *)
(* aggregate_market_votes builds from the zero state out of at most        *)
(* MaxFolded votes of ConvictionVotes.                                     *)
(***************************************************************************)
MaxFolded == 3

\* Yes, No and Skip votes with positive stake and a conviction_score of
\* 1, 7, 255, 256, 500 or 1000.
ConvictionVotes == { MkVote(1, 1, 50, 1), MkVote(1, 2, 50, 255), MkVote(0, 1, 50, 256),
                     MkVote(0, 3, 50, 1000), MkVote(1, 3, 80, 500), MkVote(2, 5, 60, 7) }

FoldedStates ==
    { FoldFrom(ZeroState, vs, Len(vs), 0) :
        vs \in UNION { [1..n -> ConvictionVotes] : n \in 0..MaxFolded } }

InitFoldedOdds ==
    /\ odds_state \in FoldedStates /\ odds_result = NoOdds /\ opc = "ready"
    /\ DetectIdle /\ PayoutIdle /\ ProductIdle /\ UtilIdle /\ ValidatorIdle /\ AggregateIdle /\ CoordIdle

SpecFoldedOdds == InitFoldedOdds /\ [][NextOdds]_vars

(***************************************************************************)
(* SpecProducts: the three products of one calculate_payout call, on       *)
(* factors drawn from ProductInputs.                                       *)
(***************************************************************************)
InitProducts ==
    /\ mul_args \in ProductInputs /\ mul_out = NoProducts /\ mpc = "ready"
    /\ DetectIdle /\ PayoutIdle /\ OddsIdle /\ UtilIdle /\ ValidatorIdle /\ AggregateIdle /\ CoordIdle

run_products ==
    /\ mpc = "ready"
    /\ \E l \in mul_u64(mul_args.user_stake, mul_args.total_losing_stake),
          a \in mul_u64(mul_args.accuracy_bonus, mul_args.accuracy_factor),
          c \in mul_u64(mul_args.conviction_bonus, mul_args.user_conviction) :
          mul_out' = [losing |-> l, accuracy |-> a, conviction |-> c]
    /\ mpc' = "done"
    /\ UNCHANGED <<mul_args, payoutVars, oddsVars, detectVars, utilVars, validatorVars, aggregateVars,
                   coordVars, oracleVars>>

NextProducts == run_products

SpecProducts == InitProducts /\ [][NextProducts]_vars

(***************************************************************************)
(* SpecDetect: one call of detect_manipulation on a batch of DetectBatches *)
(* and a count of DetectCounts.  The three counters are u8: an addition    *)
(* that passes 255 either wraps or stops the computation.                  *)
(***************************************************************************)
InitDetect ==
    /\ det_votes \in DetectBatches /\ det_count \in DetectCounts /\ det_i = 0
    /\ same_timestamp_count = 0 /\ same_probability_count = 0 /\ same_conviction_count = 0
    /\ manipulation_score = 0 /\ dpc = "loop"
    /\ PayoutIdle /\ OddsIdle /\ ProductIdle /\ UtilIdle /\ ValidatorIdle /\ AggregateIdle /\ CoordIdle

\* one iteration of the outer loop, with its whole inner loop (lib.rs 545-578)
detect_loop ==
    /\ dpc = "loop"
    /\ det_i < DetectCapacity
    /\ LET on == det_i < det_count
           t == same_timestamp_count
                  + (IF on THEN InnerLoop(det_votes, det_count, det_i, "same_timestamp_count") ELSE 0)
           p == same_probability_count
                  + (IF on THEN InnerLoop(det_votes, det_count, det_i, "same_probability_count") ELSE 0)
           c == same_conviction_count
                  + (IF on THEN InnerLoop(det_votes, det_count, det_i, "same_conviction_count") ELSE 0)
       IN  \/ /\ same_timestamp_count' = t % 256
              /\ same_probability_count' = p % 256
              /\ same_conviction_count' = c % 256
              /\ det_i' = det_i + 1
              /\ UNCHANGED dpc
           \/ /\ t > 255 \/ p > 255 \/ c > 255
              /\ dpc' = "failed"
              /\ UNCHANGED <<same_timestamp_count, same_probability_count,
                             same_conviction_count, det_i>>
    /\ UNCHANGED <<det_votes, det_count, manipulation_score, payoutVars, oddsVars, productVars,
                   utilVars, validatorVars, aggregateVars, coordVars, oracleVars>>

\* the thresholds and the score (lib.rs 580-596)
detect_score ==
    /\ dpc = "loop"
    /\ det_i = DetectCapacity
    /\ manipulation_score' =
          Min(suspicious_patterns(det_count, same_timestamp_count, same_probability_count,
                                  same_conviction_count) * 33, 100)
    /\ dpc' = "done"
    /\ UNCHANGED <<det_votes, det_count, det_i, same_timestamp_count, same_probability_count,
                   same_conviction_count, payoutVars, oddsVars, productVars,
                   utilVars, validatorVars, aggregateVars, coordVars, oracleVars>>

NextDetect == detect_loop \/ detect_score

SpecDetect == InitDetect /\ [][NextDetect]_vars

(***************************************************************************)
(* Specification SpecValidators: resolve_with_validators on one set of     *)
(* validators, one sequence of votes and one min_participation.            *)
(***************************************************************************)
InitValidators ==
    /\ rv_validators \in ValidatorSets /\ rv_votes \in ValidatorVotes
    /\ rv_min_participation \in MinParticipations
    /\ rv_result = "none" /\ rpc = "ready"
    /\ SqrtIdle /\ PayoutIdle /\ OddsIdle /\ ProductIdle /\ DetectIdle
    /\ ValidatorIdle /\ AggregateIdle /\ CoordIdle

run_resolve_with_validators ==
    /\ rpc = "ready"
    /\ rv_result' = resolve_with_validators(rv_validators, rv_votes, rv_min_participation)
    /\ rpc' = "done"
    /\ UNCHANGED <<rv_validators, rv_votes, rv_min_participation, sqrtVars, payoutVars,
                   oddsVars, productVars, detectVars, validatorVars, aggregateVars,
                   coordVars, oracleVars>>

NextValidators == run_resolve_with_validators

SpecValidators == InitValidators /\ [][NextValidators]_vars

(***************************************************************************)
(* Specification SpecSqrt: sqrt_approx on one argument of SqrtInputs.      *)
(***************************************************************************)
InitSqrt ==
    /\ sq_x \in SqrtInputs /\ sq_result = 0 /\ sq_i = 0 /\ sqpc = "start"
    /\ ConsensusIdle /\ PayoutIdle /\ OddsIdle /\ ProductIdle /\ DetectIdle
    /\ ValidatorIdle /\ AggregateIdle /\ CoordIdle

\* the branches x == 0 and x < 4 (lib.rs 235-238)
sqrt_small ==
    /\ sqpc = "start" /\ sq_x < 4
    /\ sq_result' = (IF sq_x = 0 THEN 0 ELSE 1)
    /\ sqpc' = "done"
    /\ UNCHANGED <<sq_x, sq_i, consensusVars, payoutVars, oddsVars, productVars, detectVars,
                   validatorVars, aggregateVars, coordVars, oracleVars>>

\* let mut result = x / 2 (lib.rs 240)
sqrt_begin ==
    /\ sqpc = "start" /\ sq_x >= 4
    /\ sq_result' = sq_x \div 2
    /\ sqpc' = "loop"
    /\ UNCHANGED <<sq_x, sq_i, consensusVars, payoutVars, oddsVars, productVars, detectVars,
                   validatorVars, aggregateVars, coordVars, oracleVars>>

\* one iteration of `for _ in 0..8` (lib.rs 242-245); x / 0 stops the computation
sqrt_iterate ==
    /\ sqpc = "loop" /\ sq_i < NewtonIterations
    /\ IF sq_result = 0
       THEN sqpc' = "failed" /\ UNCHANGED <<sq_result, sq_i>>
       ELSE /\ sq_result' = newton_step(sq_x, sq_result)
            /\ sq_i' = sq_i + 1
            /\ UNCHANGED sqpc
    /\ UNCHANGED <<sq_x, consensusVars, payoutVars, oddsVars, productVars, detectVars,
                   validatorVars, aggregateVars, coordVars, oracleVars>>

\* the value of the block (lib.rs 246)
sqrt_return ==
    /\ sqpc = "loop" /\ sq_i = NewtonIterations
    /\ sqpc' = "done"
    /\ UNCHANGED <<sq_x, sq_result, sq_i, consensusVars, payoutVars, oddsVars, productVars,
                   detectVars, validatorVars, aggregateVars, coordVars, oracleVars>>

NextSqrt == sqrt_small \/ sqrt_begin \/ sqrt_iterate \/ sqrt_return

SpecSqrt == InitSqrt /\ [][NextSqrt]_vars

(***************************************************************************)
(* Claims about the circuits.                                              *)
(***************************************************************************)

\* The bounds of a valid vote, as the data model states them.
WithinBounds(v) ==
    /\ v.vote_choice \in {0, 1, 2}
    /\ v.stake_amount > 0
    /\ v.predicted_probability <= 100
    /\ v.timestamp # 0
    /\ 1 <= v.conviction_score /\ v.conviction_score <= 1000
    /\ v.nonce # 0

\* C4: submit_private_vote returns 1 exactly when every bound of the vote holds
\* and 0 as soon as one of them is violated; it returns 0 or 1 for every input.
C4_ValidatorSound ==
    vpc = "done" =>
        /\ is_valid \in {0, 1}
        /\ (is_valid = 1) <=> WithinBounds(vote)

\* C4 witness: a vote whose only violated bound is conviction_score = 1001 has
\* been rejected.
C4_Witness ==
    /\ vpc = "done" /\ is_valid = 0
    /\ vote.conviction_score = 1001
    /\ WithinBounds([vote EXCEPT !.conviction_score = 1000])

\* Whether the entry read by iteration k of the loop is folded.
Folds(vs, n, k) == k < n /\ vs[k + 1].vote_choice <= 2 /\ vs[k + 1].stake_amount > 0

Bit(b) == IF b THEN 1 ELSE 0

\* C6: each loop iteration folds its entry when index < vote_count, vote_choice <= 2
\* and stake_amount > 0 (Yes: +1 yes vote, +stake yes stake, +conviction*stake;
\* No: the same on the No fields; Skip: +1 skip vote; Yes/No: +stake*probability;
\* every folded vote: +1 participant), and leaves the state unchanged otherwise.
C6_FoldRule ==
    [][ (apc = "loop" /\ i' = i + 1) =>
          LET v == votes[i + 1]
              f == Folds(votes, vote_count, i)
              yes == f /\ v.vote_choice = 1
              no == f /\ v.vote_choice = 0
              skip == f /\ v.vote_choice = 2
          IN  /\ state'.total_yes_votes = state.total_yes_votes + Bit(yes)
              /\ state'.total_yes_stake = state.total_yes_stake + Bit(yes) * v.stake_amount
              /\ state'.conviction_weighted_yes =
                   state.conviction_weighted_yes + Bit(yes) * v.conviction_score * v.stake_amount
              /\ state'.total_no_votes = state.total_no_votes + Bit(no)
              /\ state'.total_no_stake = state.total_no_stake + Bit(no) * v.stake_amount
              /\ state'.conviction_weighted_no =
                   state.conviction_weighted_no + Bit(no) * v.conviction_score * v.stake_amount
              /\ state'.total_skip_votes = state.total_skip_votes + Bit(skip)
              /\ state'.weighted_probability_sum =
                   state.weighted_probability_sum
                     + Bit(yes \/ no) * v.stake_amount * v.predicted_probability
              /\ state'.total_participants = state.total_participants + Bit(f)
              /\ (~f => state' = state)
      ]_vars

\* C6 witness: a call with vote_count = 1 has folded its first entry, a Yes vote,
\* and passed over its second entry, a No vote with positive stake.
C6_Witness ==
    /\ apc = "done" /\ vote_count = 1
    /\ votes[1].vote_choice = 1 /\ votes[1].stake_amount > 0
    /\ votes[2].vote_choice = 0 /\ votes[2].stake_amount > 0
    /\ state.total_yes_stake = votes[1].stake_amount
    /\ state.total_no_votes = 0 /\ state.total_participants = 1

\* C7: whatever has been folded, the three vote counters add up to the
\* participant counter.
C7_CountersAddUp ==
    /\ state.total_yes_votes + state.total_no_votes + state.total_skip_votes
          = state.total_participants
    /\ folded.total_yes_votes + folded.total_no_votes + folded.total_skip_votes
          = folded.total_participants

\* C7 witness: a Yes vote and a Skip vote have been folded.
C7_Witness ==
    /\ state.total_yes_votes = 1 /\ state.total_skip_votes = 1
    /\ state.total_participants = 2
    /\ folded.total_participants > 2

\* The batch with its first n entries rearranged by the permutation f of 1..n.
Permuted(vs, n, f) == [k \in 1..Len(vs) |-> IF k <= n THEN vs[f[k]] ELSE vs[k]]


\* C8: the state and the revealed buffer of a call on the all-zero state are
\* those of the same call on any permutation of the batch's first vote_count
\* entries.
C8_OrderIndependent ==
    (apc = "done" /\ current_state = ZeroState) =>
        \A f \in Permutations(1..Min(vote_count, Len(votes))) :
            LET other == FoldFrom(ZeroState, Permuted(votes, Min(vote_count, Len(votes)), f),
                                  vote_count, 0)
            IN  other = state /\ Reveal(other) = result

\* C8 witness: a call has folded a Yes vote followed by a No vote.
C8_Witness ==
    /\ apc = "done" /\ vote_count >= 2
    /\ votes[1].vote_choice = 1 /\ votes[2].vote_choice = 0
    /\ state.total_yes_votes = 1 /\ state.total_no_votes = 1

\* C9: when a call returns, its state is the fold of every vote of this call and
\* of the calls before it: the state one call produced was the input of the next.
C9_Additive ==
    apc = "done" => state = folded

\* C10: folding a Skip vote with positive stake adds 1 to total_skip_votes and
\* to total_participants and changes none of the Yes/No counters, the stakes,
\* weighted_probability_sum and the conviction sums.
C10_SkipNeutral ==
    [][ (apc = "loop" /\ i' = i + 1 /\ i < vote_count
           /\ votes[i + 1].vote_choice = 2 /\ votes[i + 1].stake_amount > 0) =>
          /\ state'.total_skip_votes = state.total_skip_votes + 1
          /\ state'.total_participants = state.total_participants + 1
          /\ state'.total_yes_votes = state.total_yes_votes
          /\ state'.total_no_votes = state.total_no_votes
          /\ state'.total_yes_stake = state.total_yes_stake
          /\ state'.total_no_stake = state.total_no_stake
          /\ state'.weighted_probability_sum = state.weighted_probability_sum
          /\ state'.conviction_weighted_yes = state.conviction_weighted_yes
          /\ state'.conviction_weighted_no = state.conviction_weighted_no
      ]_vars

\* C10 witness: a Skip vote with positive stake has been folded after a Yes vote.
C10_Witness ==
    /\ apc = "loop" /\ i = 2 /\ vote_count >= 2
    /\ votes[1].vote_choice = 1 /\ votes[1].stake_amount > 0
    /\ votes[2].vote_choice = 2 /\ votes[2].stake_amount > 0
    /\ state.total_skip_votes = 1 /\ state.total_yes_stake = votes[1].stake_amount

(***************************************************************************)
(* Claims about the coordinator.                                           *)
(***************************************************************************)

\* C1: a payout result is honoured at most once for a position: payout_amount
\* is set and total_winnings is credited at most one time.
C1_AtMostOnce ==
    \A u \in Users : credited[u] <= 1

\* C2: a payout request for a position whose is_claimed flag is set
\* (calculate_user_payout in lib.rs, claim_payout in lib_full.rs) returns
\* PayoutAlreadyClaimed, queues no computation and leaves the position, the
\* profile and the market unchanged.
C2_ClaimedRejected ==
    [][ \A u \in Users :
          (position[u].is_claimed /\ (calculate_user_payout(u) \/ claim_payout(u))) =>
              /\ ix_result'.err = "PayoutAlreadyClaimed"
              /\ UNCHANGED <<position, profile, market, payout_comps, credited>>
      ]_vars

\* C2 witness: calculate_user_payout has just been rejected with
\* PayoutAlreadyClaimed for a position that payout_callback had marked claimed.
C2_Witness ==
    \E u \in Users :
        /\ program = "arcium" /\ position[u].is_claimed /\ credited[u] = 1
        /\ ix_result = Result("calculate_user_payout", u, "PayoutAlreadyClaimed")

\* C3: at most one aggregate_market_votes computation of the market is in
\* flight at any time.
C3_OneInFlight ==
    agg_comps <= 1

\* C5: once the validator's result for a submission has arrived, a position
\* remains for it only if the result was 1.
C5_RejectedLeavesNothing ==
    \A u \in Users :
        (position[u].initialized /\ u \notin vote_comps) =>
            submit_private_vote(position[u].encrypted_vote) = 1

\* C11: every aggregate_market_votes request made while the market is Locked or
\* Resolved is rejected and queues no computation.
C11_NoAggregationAfterLock ==
    [][ (market.status \in {"Locked", "Resolved"} /\ ix_aggregate_market_votes) =>
            /\ ix_result'.err # "Ok"
            /\ agg_comps' = agg_comps
      ]_vars

\* A payout has been requested or recorded for user u.
PayoutTouched(u) == position[u].is_claimed \/ payout_comps[u] # << >> \/ credited[u] > 0

\* C12: a payout is requested or recorded for a position only while the market
\* is Resolved with its outcome set; calculate_user_payout and claim_payout on a
\* position of a market in any other status return MarketNotResolved and change
\* nothing; a Resolved market always has resolved_outcome set.
C12_PayoutOnlyWhenResolved ==
    /\ [](market.status = "Resolved" => market.resolved_outcome # None)
    /\ [](\A u \in Users : PayoutTouched(u) =>
              market.status = "Resolved" /\ market.resolved_outcome # None)
    /\ [][ \A u \in Users :
             (position[u].initialized /\ market.status # "Resolved"
                /\ (calculate_user_payout(u) \/ claim_payout(u))) =>
                 /\ ix_result'.err = "MarketNotResolved"
                 /\ UNCHANGED <<position, profile, market, payout_comps, credited>>
       ]_vars

\* C12 witness: calculate_user_payout has just been rejected with
\* MarketNotResolved for an existing position of a Locked market.
C12_Witness ==
    /\ program = "arcium" /\ market.status = "Locked" /\ position["alice"].initialized
    /\ ix_result = Result("calculate_user_payout", "alice", "MarketNotResolved")
    /\ ~PayoutTouched("alice")

(***************************************************************************)
(* Claims about the circuits calculate_payout and calculate_market_odds.   *)
(***************************************************************************)

\* The worked example of the payout rule.
PayoutExample ==
    [user_stake |-> 100, user_vote |-> 1, market_outcome |-> 1, user_probability |-> 80,
     user_conviction |-> 500, total_winning_stake |-> 500, total_losing_stake |-> 300,
     accuracy_bonus |-> 50, conviction_bonus |-> 200]

C14_LossPaysNothing ==
    (ppc = "done" /\ payout_data.user_vote # payout_data.market_outcome) =>
        final_payout = 0

\* C14 witness: a No vote with stake 100 and non-empty pools in a market that
\* resolved Yes has been computed and gave 0.
C14_Witness ==
    /\ ppc = "done" /\ final_payout = 0
    /\ payout_data.user_vote = 0 /\ payout_data.market_outcome = 1
    /\ payout_data.user_stake = 100 /\ payout_data.total_losing_stake = 300
    /\ payout_data.accuracy_bonus = 50 /\ payout_data.conviction_bonus = 200

(***************************************************************************)
(* Claims about the coordinator and the circuits together.                 *)
(***************************************************************************)

\* C15: the payout recorded by payout_callback treats a Yes position of a
\* market resolved Yes as a winner (it receives at least its stake) and gives a
\* No position of a market resolved Yes nothing.
C15_EncodingAgrees ==
    \A u \in Users :
        (program = "arcium" /\ position[u].is_claimed
           /\ market.resolved_outcome = Some(TRUE)) =>
            /\ position[u].vote_choice = "Yes" =>
                   position[u].payout_amount >= position[u].stake_amount
            /\ position[u].vote_choice = "No" => position[u].payout_amount = 0

\* C16: no product of calculate_payout overflows 64 bits: each of stake *
\* total_losing_stake, accuracy_bonus * factor and conviction_bonus * conviction
\* is held by the circuit at its mathematically exact value.
C16_ProductsExact ==
    LET Exact(a, b) == [value |-> wide_mul(a, b), failed |-> FALSE]
    IN  mpc = "done" =>
          /\ mul_out.losing = Exact(mul_args.user_stake, mul_args.total_losing_stake)
          /\ mul_out.accuracy = Exact(mul_args.accuracy_bonus, mul_args.accuracy_factor)
          /\ mul_out.conviction = Exact(mul_args.conviction_bonus, mul_args.user_conviction)

(***************************************************************************)
(* Claims about calculate_market_odds (SpecOdds).                          *)
(***************************************************************************)

\* C17: with a positive total stake calculate_market_odds emits
\* yes = ((yes_stake * 100 / total) * f) / 100 and no = ((no_stake * 100 /
\* total) * f) / 100, truncating, where f is 95 above 10000, 90 above 1000 up
\* to 10000 and 85 up to 1000; the confidence flag is 1 exactly when the total
\* exceeds 1000; stakes of 8000 and 2000 give (72, 18).
C17_OddsFormula ==
    LET yes == odds_state.total_yes_stake
        no == odds_state.total_no_stake
        total == yes + no
        f == CASE total > 10000 -> 95
               [] total > 1000 /\ total <= 10000 -> 90
               [] total <= 1000 -> 85
    IN  (opc = "done" /\ total > 0) =>
          /\ odds_result[1] = (((yes * 100) \div total) * f) \div 100
          /\ odds_result[2] = (((no * 100) \div total) * f) \div 100
          /\ (odds_result[7] = 1) <=> (total > 1000)
          /\ odds_result[7] \in {0, 1}
          /\ (yes = 8000 /\ no = 2000) => (odds_result[1] = 72 /\ odds_result[2] = 18)

C17_Witness ==
    /\ opc = "done"
    /\ odds_state.total_yes_stake = 8000 /\ odds_state.total_no_stake = 2000
    /\ odds_result[1] = 72 /\ odds_result[2] = 18 /\ odds_result[7] = 1

\* C18: with total_yes_stake = total_no_stake = 0 calculate_market_odds emits
\* yes = 50, no = 50 and the confidence flag 0; the branch taken holds no
\* division, so every other byte of the buffer keeps its initial 0.
C18_ZeroStakeDefault ==
    (opc = "done" /\ odds_state.total_yes_stake = 0 /\ odds_state.total_no_stake = 0) =>
        odds_result = << 50, 50, 0, 0, 0, 0, 0, 0 >>

C18_Witness ==
    /\ opc = "done"
    /\ odds_state.total_yes_stake = 0 /\ odds_state.total_no_stake = 0
    /\ odds_state.total_participants = 300 /\ odds_state.conviction_weighted_yes = 7000
    /\ odds_result[1] = 50 /\ odds_result[2] = 50 /\ odds_result[7] = 0

(***************************************************************************)
(* Claims about the buffer aggregate_market_votes reveals.                 *)
(***************************************************************************)

\* C19: the market_probability byte that aggregate_market_votes reveals is
\* weighted_probability_sum / (total_yes_stake + total_no_stake), truncating,
\* when the total stake after the fold is positive, and exactly 50 when it is
\* zero.
C19_MarketProbability ==
    LET total == state.total_yes_stake + state.total_no_stake
    IN  apc = "done" =>
          /\ total > 0 => /\ result[29] * total <= state.weighted_probability_sum
                          /\ state.weighted_probability_sum < (result[29] + 1) * total
          /\ total = 0 => result[29] = 50

\* A fold of a Skip vote alone: a participant is counted, no stake is.
C19_Witness ==
    /\ apc = "done"
    /\ state.total_participants > 0
    /\ state.total_yes_stake + state.total_no_stake = 0
    /\ result[29] = 50

\* C20: the total_yes_votes, total_no_votes, yes_stake and no_stake that
\* aggregate_votes_callback publishes are the total_yes_votes, total_no_votes,
\* total_yes_stake and total_no_stake the circuit computed: each field is read
\* at the offset and width at which the circuit wrote it.
C20_CallbackReadsCircuitFields ==
    (apc = "done" /\ event.emitted) =>
        /\ event.total_yes_votes = state.total_yes_votes
        /\ event.total_no_votes = state.total_no_votes
        /\ event.yes_stake = to_le_bytes(state.total_yes_stake, 8)
        /\ event.no_stake = to_le_bytes(state.total_no_stake, 8)

(***************************************************************************)
(* Claims about detect_manipulation (SpecDetect).                          *)
(***************************************************************************)

\* C21: detect_manipulation sets one flag for each of same-timestamp-count >
\* count / 4, same-probability-count > count / 3 and same-conviction-count >
\* count / 3 (integer division) and returns min(flags * 33, 100); the result
\* is in 0..100, and for count = 12 with pair counts 4, 5 and 3 it is 66.
C21_ScoreFromFlags ==
    LET flags == Cardinality({ f \in {"timestamp", "probability", "conviction"} :
                     \/ f = "timestamp" /\ same_timestamp_count > det_count \div 4
                     \/ f = "probability" /\ same_probability_count > det_count \div 3
                     \/ f = "conviction" /\ same_conviction_count > det_count \div 3 })
    IN  dpc = "done" =>
          /\ manipulation_score = (IF flags * 33 < 100 THEN flags * 33 ELSE 100)
          /\ manipulation_score \in 0..100
          /\ (det_count = 12 /\ same_timestamp_count = 4 /\ same_probability_count = 5
                /\ same_conviction_count = 3) => manipulation_score = 66

C21_Witness ==
    /\ dpc = "done" /\ det_count = 12
    /\ same_timestamp_count = 4 /\ same_probability_count = 5 /\ same_conviction_count = 3
    /\ manipulation_score = 66

\* C22: when the pair loop finishes, each counter is the number of unordered
\* pairs (a, b), a < b < count, that pass its test (timestamps less than 5
\* apart, equal probabilities, equal convictions), and the loop always
\* finishes: no counter overflows.
C22_CountersArePairCounts ==
    LET Pairs(Same(_, _)) ==
            Cardinality({ pr \in (0..(det_count - 1)) \X (0..(det_count - 1)) :
                            pr[1] < pr[2] /\ Same(det_votes[pr[1] + 1], det_votes[pr[2] + 1]) })
        Near(v, w) == v.timestamp - w.timestamp \in -4..4
        EqualP(v, w) == v.predicted_probability = w.predicted_probability
        EqualK(v, w) == v.conviction_score = w.conviction_score
    IN  /\ dpc # "failed"
        /\ (dpc = "loop" /\ det_i = DetectCapacity) =>
              /\ same_timestamp_count = Pairs(Near)
              /\ same_probability_count = Pairs(EqualP)
              /\ same_conviction_count = Pairs(EqualK)

(***************************************************************************)
(* Claims about the oracle proposals and the market status (SpecOracle).   *)
(***************************************************************************)

\* C23: whenever manipulation_detection_callback delivers a result whose score
\* is greater than 75 the proposal's status becomes Invalid; with a score of
\* 75 or less the status is left unchanged.
C23_HighScoreInvalidates ==
    [][\A p \in Proposers, bytes \in ManipulationOutputs :
          manipulation_detection_callback(p, bytes) =>
              /\ bytes[2] > 75 => proposal'[p].status = "Invalid"
              /\ bytes[2] <= 75 => proposal'[p].status = proposal[p].status]_vars

\* C24: a loop iteration that folds its vote increases last_updated by exactly
\* one, an iteration whose entry is ignored leaves it unchanged, and
\* last_updated never decreases.
C24_LastUpdatedCountsFolds ==
    [][ (apc = "loop" /\ i' = i + 1) =>
          /\ state'.last_updated = state.last_updated + Bit(Folds(votes, vote_count, i))
          /\ state'.last_updated >= state.last_updated
      ]_vars

\* C25: for a state with positive total stake built by folding votes whose
\* conviction_score is in 1..1000, the average-conviction byte that
\* calculate_market_odds emits is (conviction_weighted_yes +
\* conviction_weighted_no) / (total_yes_stake + total_no_stake), truncating:
\* the output field loses nothing.
C25_AverageConvictionExact ==
    LET total == odds_state.total_yes_stake + odds_state.total_no_stake
    IN  (opc = "done" /\ total > 0) =>
          odds_result[8] =
            (odds_state.conviction_weighted_yes + odds_state.conviction_weighted_no) \div total

\* C26: in build lib.rs, once the market's status is Resolved its
\* resolved_outcome never changes again.
C26_OutcomeFinal ==
    [][(program = "arcium" /\ market.status = "Resolved") =>
            market'.resolved_outcome = market.resolved_outcome]_vars

\* C27: in build lib.rs the market status only moves forward: a Locked market
\* is never Active again and a Resolved market is never Active or Locked
\* again.
C27_StatusForward ==
    [][program = "arcium" =>
          /\ market.status = "Locked" => market'.status \in {"Locked", "Resolved"}
          /\ market.status = "Resolved" => market'.status = "Resolved"]_vars

\* A market resolved by resolve_market whose proposal then reached consensus:
\* the status was written a second time.
C27_Witness ==
    /\ program = "arcium" /\ market.status = "Resolved"
    /\ \E p \in Proposers : proposal[p].status = "Finalized"
    /\ ix_result.op = "oracle_consensus_callback"

(***************************************************************************)
(* Claims about the instructions of the coordinator (Spec).                *)
(***************************************************************************)

\* C28: a vote submission (submit_private_vote, submit_public_vote) succeeds
\* only if the market is Active, the clock is before voting_ends_at, the
\* stake is positive and the probability is at most 100; a submission for a
\* new position that misses one of them fails with MarketNotActive,
\* VotingPeriodEnded, InvalidStakeAmount or InvalidProbability respectively; a
\* failed submission leaves market, position and profile unchanged, so no
\* position is created for a market that is Locked or Resolved.
C28_SubmissionChecks ==
    [][\A u \in Users, a \in SubmitArgs :
          ( \/ ix_submit_private_vote(u, a.stake_amount, a.vote_choice,
                                      a.predicted_probability, AcceptedPayload)
            \/ submit_public_vote(u, a.stake_amount, a.vote_choice, a.predicted_probability) )
          =>
          LET err == ix_result'.err
              active == market.status = "Active"
              open == now < market.voting_ends_at
              staked == a.stake_amount > 0
              probable == a.predicted_probability <= 100
          IN  /\ err = "Ok" => (active /\ open /\ staked /\ probable)
              /\ ~ position[u].initialized =>
                    /\ ~ active => err = "MarketNotActive"
                    /\ (active /\ ~ open) => err = "VotingPeriodEnded"
                    /\ (active /\ open /\ ~ staked) => err = "InvalidStakeAmount"
                    /\ (active /\ open /\ staked /\ ~ probable) => err = "InvalidProbability"
              /\ err # "Ok" => UNCHANGED <<market, position, profile>>
              /\ market.status \in {"Locked", "Resolved"} => UNCHANGED position
      ]_vars

\* A submission for a new position has just been refused on a Locked market.
C28_Witness ==
    /\ ix_result.op = "submit_private_vote" /\ ix_result.err = "MarketNotActive"
    /\ market.status = "Locked"
    /\ \E u \in Users : ix_result.user = u /\ ~ position[u].initialized

\* C29: resolve_market of lib.rs succeeds only when the signer is the market's
\* oracle_pubkey and the market is Locked; on success the status becomes
\* Resolved and resolved_outcome becomes Some(outcome); otherwise it fails
\* with InvalidOracle or CannotResolveMarket and the market's status and
\* resolved_outcome are unchanged.
C29_ResolveChecks ==
    [][\A signer \in Signers, outcome \in BOOLEAN :
          resolve_market(signer, outcome) =>
            LET err == ix_result'.err
                by_oracle == signer = market.oracle_pubkey
                locked == market.status = "Locked"
            IN  /\ (err = "Ok") <=> (by_oracle /\ locked)
                /\ err = "Ok" => /\ market'.status = "Resolved"
                                 /\ market'.resolved_outcome = Some(outcome)
                /\ ~ by_oracle => err = "InvalidOracle"
                /\ (by_oracle /\ ~ locked) => err = "CannotResolveMarket"
                /\ err # "Ok" => /\ market'.status = market.status
                                 /\ market'.resolved_outcome = market.resolved_outcome
      ]_vars

\* The oracle's second resolve_market, on the market it has resolved, is refused.
C29_Witness ==
    /\ program = "arcium"
    /\ ix_result = Result("resolve_market", Oracle, "CannotResolveMarket")
    /\ market.status = "Resolved" /\ market.resolved_outcome # None

\* The sum of stake_amount over the positions of the users in S.
RECURSIVE StakeSum(_)
StakeSum(S) ==
    IF S = {} THEN 0
    ELSE LET u == CHOOSE x \in S : TRUE
         IN  position[u].stake_amount + StakeSum(S \ {u})

\* C30: in build lib_full.rs, in every reachable state, participant_count is
\* the number of positions created, total_stake the sum of their stakes,
\* yes_stake and no_stake the sums over the Yes and the No positions, and
\* yes_stake + no_stake <= total_stake.
C30_MarketTotals ==
    LET created == { u \in Users : position[u].initialized }
        yes == { u \in created : position[u].vote_choice = "Yes" }
        no == { u \in created : position[u].vote_choice = "No" }
    IN  program = "full" =>
          /\ market.participant_count = Cardinality(created)
          /\ market.total_stake = StakeSum(created)
          /\ market.yes_stake = StakeSum(yes)
          /\ market.no_stake = StakeSum(no)
          /\ market.yes_stake + market.no_stake <= market.total_stake

\* A Yes, or No, position and a Skip position have been created: the Skip
\* stake is in total_stake only.
C30_Witness ==
    /\ program = "full"
    /\ market.participant_count = 2
    /\ \E u \in Users : position[u].initialized /\ position[u].vote_choice = "Skip"
    /\ \E u \in Users : position[u].initialized /\ position[u].vote_choice = "No"
    /\ market.no_stake = 30 /\ market.total_stake = 40

\* The sum of payout_amount over the positions of the users in S.
RECURSIVE PayoutSum(_)
PayoutSum(S) ==
    IF S = {} THEN 0
    ELSE LET u == CHOOSE x \in S : TRUE
         IN  position[u].payout_amount + PayoutSum(S \ {u})

\* C31: in build lib_full.rs the payouts of the claimed positions never add
\* up to more than market.yes_stake + market.no_stake.
C31_PayoutsWithinStakes ==
    program = "full" =>
        PayoutSum({ u \in Users : position[u].initialized /\ position[u].is_claimed })
            <= market.yes_stake + market.no_stake

\* The Yes position of stake 10 has claimed 40 against a No position of stake
\* 30, and the No position has claimed too: everything staked is paid out.
C31_Witness ==
    /\ program = "full"
    /\ \A u \in Users : position[u].initialized /\ position[u].is_claimed
    /\ market.yes_stake = 10 /\ market.no_stake = 30
    /\ \E u \in Users : position[u].payout_amount = 40

\* C32: in build lib.rs a proposal that is Invalid (as
\* manipulation_detection_callback marks it) is not set to Finalized by any
\* later instruction or callback, and the market is not resolved with its
\* outcome.
C32_InvalidStaysInvalid ==
    [][\A p \in Proposers :
          (program = "arcium" /\ proposal[p].status = "Invalid") =>
              /\ proposal'[p].status # "Finalized"
              /\ ~ \E reached \in BOOLEAN, outcome \in BOOLEAN :
                     /\ oracle_consensus_callback(p, reached, outcome)
                     /\ market' # market
      ]_vars

\* C33: in build lib.rs a proposal that has been disputed never becomes
\* Finalized and has no consensus computation whose callback could resolve the
\* market; create_oracle_dispute is accepted only for a Proposed proposal
\* within the challenge period, calculate_oracle_consensus only for a Proposed
\* proposal after it, and a consensus callback is delivered only for an
\* accepted computation.
C33_DisputedNeverFinalized ==
    /\ [](\A p \in Proposers :
            proposal[p].dispute_count > 0 =>
                /\ proposal[p].status \in {"Disputed", "Invalid"}
                /\ consensus_comps[p] = 0)
    /\ [][\A p \in Proposers :
            /\ (ix_result'.op = "create_oracle_dispute" /\ ix_result'.err = "Ok"
                  /\ ix_result' # ix_result /\ ix_result'.user = p)
                 => /\ proposal[p].status = "Proposed"
                    /\ now <= proposal[p].challenge_period_end
                    /\ proposal'[p].status = "Disputed"
            /\ (ix_result'.op = "calculate_oracle_consensus" /\ ix_result'.err = "Ok"
                  /\ ix_result' # ix_result /\ ix_result'.user = p)
                 => /\ proposal[p].status = "Proposed"
                    /\ now > proposal[p].challenge_period_end
            /\ (\E reached \in BOOLEAN, outcome \in BOOLEAN :
                   oracle_consensus_callback(p, reached, outcome))
                 => /\ consensus_comps[p] > 0
                    /\ proposal[p].status = "Pending" \/ proposal[p].status = "Invalid"
       ]_vars

\* After the challenge period calculate_oracle_consensus has been refused for a
\* proposal that was disputed.
C33_Witness ==
    \E p \in Proposers :
        /\ proposal[p].status = "Disputed" /\ proposal[p].dispute_count = 1
        /\ now > proposal[p].challenge_period_end
        /\ ix_result = Result("calculate_oracle_consensus", p, "ProposalNotActive")

\* C34: whatever the batch, the market_probability byte revealed by
\* aggregate_market_votes for a state aggregated from the all-zero state is a
\* percentage, in 0..100.
C34_ProbabilityIsPercentage ==
    apc = "done" => result[29] \in 0..100

\* C35: for a batch whose first count votes all carry the same timestamp, the
\* same predicted_probability and the same conviction_score,
\* detect_manipulation returns score 99 for every count from 2 to 50 and
\* score 0 for count 0 or 1.
C35_UniformBatchScore ==
    det_votes = UniformBatch =>
        /\ dpc # "failed"
        /\ dpc = "done" =>
              manipulation_score = (IF det_count \in 2..DetectCapacity THEN 99 ELSE 0)

\* C36: once the participation requirement is met, resolve_with_validators
\* returns Ok(true) only if the Yes weight is at least two thirds of the total
\* vote weight (3 * yes >= 2 * total), Ok(false) only if the No weight is, and
\* NoConsensusReached in every other case.
C36_Supermajority ==
    LET Weight(b) == SumWeights(SelectSeq(rv_votes, LAMBDA v : v.vote = b))
        total == Weight(TRUE) + Weight(FALSE)
    IN  (rpc = "done" /\ rv_result # "InsufficientValidatorParticipation") =>
          /\ rv_result = "Ok(true)" => 3 * Weight(TRUE) >= 2 * total
          /\ rv_result = "Ok(false)" => 3 * Weight(FALSE) >= 2 * total
          /\ (3 * Weight(TRUE) < 2 * total /\ 3 * Weight(FALSE) < 2 * total)
                => rv_result = "NoConsensusReached"

\* C39: sqrt_approx returns 0 for x = 0 and 1 for 1 <= x < 4; for x >= 4 the
\* value r left by its 8 iterations satisfies r * r <= x < (r + 1) * (r + 1);
\* no iteration divides by zero.
C39_IntegerSquareRoot ==
    /\ sqpc # "failed"
    /\ sqpc = "done" =>
          /\ sq_x = 0 => sq_result = 0
          /\ sq_x \in 1..3 => sq_result = 1
          /\ sq_x >= 4 => /\ sq_result * sq_result <= sq_x
                          /\ sq_x \div (sq_result + 1) < sq_result + 1

\* C37: in build lib_full.rs every profile has correct_predictions <=
\* total_markets_participated: a vote adds one participation, and a claim adds
\* at most one correct prediction, once per position.
C37_CorrectWithinParticipated ==
    program = "full" =>
        \A u \in Users :
            profile[u].correct_predictions <= profile[u].total_markets_participated

\* A user voted, the market was resolved with the user's choice and the claim
\* counted the correct prediction; another user's claim counted none.
C37_Witness ==
    /\ program = "full"
    /\ \E u \in Users : /\ position[u].is_claimed
                        /\ profile[u].correct_predictions = 1
                        /\ profile[u].total_markets_participated = 1
    /\ \E u \in Users : /\ position[u].is_claimed /\ position[u].vote_choice # "Skip"
                        /\ profile[u].correct_predictions = 0

\* C38: in build lib_full.rs the payout that claim_payout records for a Yes or
\* No position of a resolved market is what the circuit calculate_payout
\* returns for the same stake, vote and outcome, with total_winning_stake and
\* total_losing_stake taken from the market's yes_stake and no_stake and both
\* bonus pools 0.
C38_ClaimMatchesCircuit ==
    \A u \in Users :
        (/\ program = "full" /\ position[u].is_claimed
         /\ position[u].vote_choice \in {"Yes", "No"}
         /\ market.status = "Resolved" /\ market.resolved_outcome # None) =>
            LET outcome == market.resolved_outcome[1]
                d == [user_stake |-> position[u].stake_amount,
                      user_vote |-> IF position[u].vote_choice = "Yes" THEN 1 ELSE 0,
                      market_outcome |-> IF outcome THEN 1 ELSE 0,
                      user_probability |-> position[u].predicted_probability,
                      user_conviction |-> 500,
                      total_winning_stake |-> IF outcome THEN market.yes_stake
                                              ELSE market.no_stake,
                      total_losing_stake |-> IF outcome THEN market.no_stake
                                             ELSE market.yes_stake,
                      accuracy_bonus |-> 0, conviction_bonus |-> 0]
            IN  position[u].payout_amount = calculate_payout(d)

\* A No position of stake 30 has claimed 40 after the market resolved No against
\* a Yes position of stake 10, which has claimed 0.
C38_Witness ==
    /\ program = "full" /\ market.status = "Resolved" /\ market.resolved_outcome = Some(FALSE)
    /\ \E u \in Users : /\ position[u].is_claimed /\ position[u].vote_choice = "No"
                        /\ position[u].stake_amount = 30 /\ position[u].payout_amount = 40
    /\ \E u \in Users : /\ position[u].is_claimed /\ position[u].vote_choice = "Yes"
                        /\ position[u].payout_amount = 0
====
